---------------------------- MODULE Spec2Model ----------------------------
(***************************************************************************)
(* Venue Scout multi-provider search: the query builder, the providers'    *)
(* search methods, the search executor and the fallback orchestrator of    *)
(* src/venue-scout/unified_search.py and src/venue-scout/providers/.       *)
(*                                                                         *)
(* Python values are modelled as follows.  A dict is a function whose      *)
(* DOMAIN is its key set (dict.get is Get); a dict that is iterated        *)
(* (config["regions"]) is the sequence of its items in insertion order.    *)
(* A str that the code only passes along is a TLA+ string; a value that    *)
(* may be a str or None (a result's text, an exception's message) is       *)
(* PyStr(s) or PyNone.  A format template is a sequence of tokens.         *)
(***************************************************************************)
EXTENDS Integers, Sequences, FiniteSets, TLC

VARIABLES
    config,       \* the configuration dict of venues.toml
    max_queries,  \* --max-queries / limit
    provider_arg, \* --provider override, PyNone when not given
    mode,         \* "daily" | "single" | "build" | "provider"
    pc,           \* position of the running function
    cand,         \* index of the candidate being tried (0 = primary)
    provider,     \* the provider instance bound to the local `provider`
    queries,      \* execute_searches: the local `queries`
    results,      \* execute_searches: the local `results`
    files,        \* history: the ResultBatch documents written, in order
    calls,        \* history: the calls made on the registry and providers
    diag,         \* history: the orchestrator's diagnostics (printed lines)
    env,          \* the process environment as the current provider finds it
    listed,       \* the lists list_providers returned, as their callers hold them
    disk,         \* RESULTS_DIR: the document stored under each file name
    db,           \* venue-scout's database: the tables venues and excluded_venues
    dblog,        \* history: the operations on the database, each with the
                  \* database it found
    args,         \* the flags given to festival-submit's scheduler
    conn,         \* scheduler: runner.db.conn
    connections,  \* scheduler: every connection opened so far, open or closed
    raised        \* scheduler: an exception is propagating

vars == <<config, max_queries, provider_arg, mode, pc, cand, provider,
          queries, results, files, calls, diag, env, listed, disk,
          db, dblog, args, conn, connections, raised>>

---------------------------------------------------------------------------
(* Bounds of the model *)

MaxRegions == 2
MaxCities == 4
MaxLimit == 3
MaxFallbacks == 2
MaxRunQueries == 2
MaxProviderCalls == 3
MaxTime == 2
TicksPerMinute == 2
MaxRuns == 2
MaxVenueOps == 3

---------------------------------------------------------------------------
(* Python helpers *)

PyNone == [py |-> "None"]
PyStr(s) == [py |-> "str", v |-> s]
PyInt(n) == [py |-> "int", v |-> n]
PyList(s) == [py |-> "list", v |-> s]
PyObj(s) == [py |-> "object", v |-> s]
IsStr(x) == x.py = "str"

\* bool(x) of a str or None
Truthy(x) == IsStr(x) /\ x.v # ""

EmptyDict == <<>>

\* dict.get(k, default)
Get(d, k, default) == IF k \in DOMAIN d THEN d[k] ELSE default

\* s[:n]
PySliceTo(s, n) ==
    IF n >= 0
    THEN SubSeq(s, 1, IF n < Len(s) THEN n ELSE Len(s))
    ELSE SubSeq(s, 1, IF Len(s) + n > 0 THEN Len(s) + n ELSE 0)

\* template.format(city=city, region=region)
Format(template, city, region) ==
    [i \in DOMAIN template |->
        IF template[i] = "{city}" THEN city
        ELSE IF template[i] = "{region}" THEN region
        ELSE template[i]]

\* the parts of the state that belong to the other programs of the
\* repository, while they are not running
NoDatabase == [venues |-> EmptyDict, excluded_venues |-> {}]
VenuesIdle ==
    /\ db = NoDatabase
    /\ dblog = <<>>
SchedulerIdle ==
    /\ args = {}
    /\ conn = PyNone
    /\ connections = <<>>
    /\ raised = FALSE
OthersIdle == VenuesIdle /\ SchedulerIdle

---------------------------------------------------------------------------
(* build_search_queries *)

DefaultPriority == 5
CitiesPerRegion == 3
\* limit: int = 10
DefaultLimit == 10

TemplateTypes == <<"new_venues", "booking_opportunities">>

\* the body of `for template_type in [...]` for one city
RECURSIVE QueriesForTypes(_, _, _, _, _)
QueriesForTypes(templates, region_name, priority, city, types) ==
    IF types = <<>> THEN <<>>
    ELSE LET template_type == Head(types)
             template_list == Get(templates, template_type, <<>>)
             this == IF template_list # <<>>
                     THEN << [query    |-> Format(template_list[1], city, region_name),
                              type     |-> template_type,
                              region   |-> region_name,
                              city     |-> city,
                              priority |-> priority] >>
                     ELSE <<>>
         IN this \o QueriesForTypes(templates, region_name, priority, city, Tail(types))

\* `for city in cities`
RECURSIVE QueriesForCities(_, _, _, _)
QueriesForCities(templates, region_name, priority, cities) ==
    IF cities = <<>> THEN <<>>
    ELSE QueriesForTypes(templates, region_name, priority, Head(cities), TemplateTypes)
         \o QueriesForCities(templates, region_name, priority, Tail(cities))

\* as TopCities, with every city of the region taken
AllCities(region_data) == Get(region_data, "cities", <<>>)

\* the top 3 cities of a region
TopCities(region_data) ==
    PySliceTo(Get(region_data, "cities", <<>>), CitiesPerRegion)

\* `for region_key, region_data in regions.items()`
RECURSIVE QueriesForRegions(_, _)
QueriesForRegions(templates, regions) ==
    IF regions = <<>> THEN <<>>
    ELSE LET region_key == Head(regions).key
             region_data == Head(regions).data
             region_name == Get(region_data, "name", region_key)
             priority == Get(region_data, "priority", DefaultPriority)
         IN QueriesForCities(templates, region_name, priority, TopCities(region_data))
            \o QueriesForRegions(templates, Tail(regions))

\* as GeneratedQueries, with built-in templates used when none are configured
GeneratedQueriesBuiltIn(cfg) ==
    QueriesForRegions(Get(cfg, "search_templates",
                          "new_venues" :> << <<"new venues in", "{city}">> >>),
                      Get(cfg, "regions", <<>>))

\* the list `queries` before it is sorted
GeneratedQueries(cfg) ==
    QueriesForRegions(Get(cfg, "search_templates", EmptyDict),
                      Get(cfg, "regions", <<>>))

\* as InsertByPriority, with q put in front of the entries of equal priority
RECURSIVE InsertBeforeEqual(_, _)
InsertBeforeEqual(q, sorted) ==
    IF sorted = <<>> THEN <<q>>
    ELSE IF Head(sorted).priority < q.priority
         THEN <<Head(sorted)>> \o InsertBeforeEqual(q, Tail(sorted))
         ELSE <<q>> \o sorted

\* insertion of q behind every entry whose key is not greater: what a stable
\* sort does with the entry that comes last in the input
RECURSIVE InsertByPriority(_, _)
InsertByPriority(q, sorted) ==
    IF sorted = <<>> THEN <<q>>
    ELSE IF Head(sorted).priority <= q.priority
         THEN <<Head(sorted)>> \o InsertByPriority(q, Tail(sorted))
         ELSE <<q>> \o sorted

\* as SortByPriority, with the list left in generation order
Unsorted(qs) == qs

\* queries.sort(key=lambda x: x["priority"])  (list.sort is stable)
RECURSIVE SortByPriority(_)
SortByPriority(qs) ==
    IF qs = <<>> THEN <<>>
    ELSE InsertByPriority(qs[Len(qs)], SortByPriority(SubSeq(qs, 1, Len(qs) - 1)))

\* return queries[:limit]
Truncate(qs, limit) == PySliceTo(qs, limit)

\* as build_search_queries, with the list cut before it is sorted
BuildTruncateFirst(cfg, limit) ==
    SortByPriority(Truncate(GeneratedQueries(cfg), limit))

build_search_queries(cfg, limit) ==
    Truncate(SortByPriority(GeneratedQueries(cfg)), limit)

---------------------------------------------------------------------------
(* claude_search.py: build_search_queries of the original script *)

\* lines 52-63: the body of `for template_type in [...]`, acting on the list
ClaudeSearchAppendQuery(acc, templates, region_name, priority, city, template_type) ==
    LET template_list == Get(templates, template_type, <<>>)
    IN IF Len(template_list) > 0
       THEN Append(acc, [query    |-> Format(template_list[1], city, region_name),
                         type     |-> template_type,
                         region   |-> region_name,
                         city     |-> city,
                         priority |-> priority])
       ELSE acc

\* as ClaudeSearchForCity, with the two categories taken in the other order
ClaudeSearchForCityBookingFirst(acc, templates, region_name, priority, city) ==
    ClaudeSearchAppendQuery(
        ClaudeSearchAppendQuery(acc, templates, region_name, priority, city,
                                "booking_opportunities"),
        templates, region_name, priority, city, "new_venues")

\* line 51: `for template_type in ["new_venues", "booking_opportunities"]`
ClaudeSearchForCity(acc, templates, region_name, priority, city) ==
    ClaudeSearchAppendQuery(
        ClaudeSearchAppendQuery(acc, templates, region_name, priority, city, "new_venues"),
        templates, region_name, priority, city, "booking_opportunities")

\* line 49: `for city in cities`, from the i-th city on
RECURSIVE ClaudeSearchForCities(_, _, _, _, _, _)
ClaudeSearchForCities(acc, templates, region_name, priority, cities, i) ==
    IF i > Len(cities) THEN acc
    ELSE ClaudeSearchForCities(
             ClaudeSearchForCity(acc, templates, region_name, priority, cities[i]),
             templates, region_name, priority, cities, i + 1)

\* line 44: `for region_key, region_data in regions.items()`, from the i-th item on
RECURSIVE ClaudeSearchForRegions(_, _, _, _)
ClaudeSearchForRegions(acc, templates, regions, i) ==
    IF i > Len(regions) THEN acc
    ELSE LET region_data == regions[i].data
             region_name == Get(region_data, "name", regions[i].key)
             priority == Get(region_data, "priority", 5)
             cities == PySliceTo(Get(region_data, "cities", <<>>), 3)
         IN ClaudeSearchForRegions(
                ClaudeSearchForCities(acc, templates, region_name, priority, cities, 1),
                templates, regions, i + 1)

\* claude_search.build_search_queries
claude_search_build_search_queries(cfg, limit) ==
    LET templates == Get(cfg, "search_templates", EmptyDict)
        regions == Get(cfg, "regions", <<>>)
        generated == ClaudeSearchForRegions(<<>>, templates, regions, 1)
    IN PySliceTo(SortByPriority(generated), limit)

---------------------------------------------------------------------------
(* Configurations *)

CityNames == <<"Kingston", "Woodstock", "Albany", "Troy", "Hudson", "Beacon">>
RegionKeys == <<"r1", "r2", "r3", "r4">>
Priorities == {1, 2}

Template1 == <<"{city}", "new venue", "{region}">>
Template2 == <<"{city}", "booking">>
Template3 == <<"other", "{city}">>

\* the data of one region: name, priority and cities are each optional
RegionDatas ==
    { n @@ p @@ c :
        n \in {EmptyDict, "name" :> "Hudson Valley"},
        p \in {EmptyDict} \cup { "priority" :> x : x \in Priorities },
        c \in {EmptyDict} \cup { "cities" :> SubSeq(CityNames, 1, k) : k \in {1, MaxCities} } }

\* the regions of a configuration, as the items of the dict in file order
RegionItems(n) ==
    UNION { { [i \in 1..k |-> [key |-> RegionKeys[i], data |-> f[i]]] :
                f \in [1..k -> RegionDatas] } : k \in 0..n }

TemplateDicts ==
    { a @@ b :
        a \in {EmptyDict, "new_venues" :> <<>>, "new_venues" :> <<Template1, Template3>>},
        b \in {EmptyDict, "booking_opportunities" :> <<Template2>>} }

\* the environment before any provider has looked at it
NoEnv == [sdk |-> {}, keys |-> {}, service |-> "down"]

---------------------------------------------------------------------------
(* Specification of the query builder alone *)

InitBuild ==
    /\ mode = "build"
    /\ \E r \in RegionItems(MaxRegions), t \in TemplateDicts :
          config \in { ("regions" :> r) @@ ("search_templates" :> t),
                       ("regions" :> r), ("search_templates" :> t) }
    /\ max_queries \in (-1..MaxLimit) \cup {DefaultLimit}
    /\ provider_arg = PyNone
    /\ pc = "start"
    /\ cand = 0
    /\ provider = PyNone
    /\ queries = <<>>
    /\ results = <<>>
    /\ files = <<>>
    /\ calls = <<>>
    /\ diag = <<>>
    /\ env = NoEnv
    /\ listed = <<>>
    /\ disk = EmptyDict
    /\ OthersIdle

BuildQueries ==
    /\ mode = "build"
    /\ pc = "start"
    /\ queries' = build_search_queries(config, max_queries)
    /\ pc' = "built"
    /\ UNCHANGED <<db, dblog, args, conn, connections, raised,
                   disk, listed, config, max_queries, provider_arg, mode, cand, provider,
                   results, files, calls, diag, env>>

NextBuild == BuildQueries

SpecBuild == InitBuild /\ [][NextBuild]_vars


---------------------------------------------------------------------------
(* providers/base.py *)

Raised(type, msg) == [ok |-> FALSE, type |-> type, error |-> msg]
Returned(value) == [ok |-> TRUE, value |-> value]

\* SearchProvider.__init__
ProviderConfig(cfg) == Get(cfg, "search_provider", EmptyDict)

\* SearchProvider._standardize_result
StandardizeResult(raw_result, query_info, success, error) ==
    LET result == [query_info |-> query_info,
                   text       |-> raw_result,
                   success    |-> success,
                   timestamp  |-> "now"]
    IN IF ~success /\ Truthy(error)
       THEN result @@ ("error" :> error)
       ELSE result

\* a class name, split where "Provider" occurs in it
ClassNameParts(class) ==
    CASE class = "ClaudeProvider"     -> <<"Claude", "Provider">>
      [] class = "OpenRouterProvider" -> <<"OpenRouter", "Provider">>
      [] class = "OllamaProvider"     -> <<"Ollama", "Provider">>
      [] class = "MCPProvider"        -> <<"MCP", "Provider">>

\* str.replace(old, "") on a split string
RECURSIVE ReplaceWithEmpty(_, _)
ReplaceWithEmpty(parts, old) ==
    IF parts = <<>> THEN ""
    ELSE (IF Head(parts) = old THEN "" ELSE Head(parts))
         \o ReplaceWithEmpty(Tail(parts), old)

\* str.lower(), on the strings the model uses
Lower(str) ==
    CASE str = "Claude"     -> "claude"
      [] str = "OpenRouter" -> "openrouter"
      [] str = "Ollama"     -> "ollama"
      [] str = "MCP"        -> "mcp"
      [] OTHER              -> str

\* self.__class__.__name__.replace("Provider", "").lower()
get_provider_name(self) ==
    Lower(ReplaceWithEmpty(ClassNameParts(self.class), "Provider"))

\* the `except Exception as e` clause that closes every search method
FailedResult(query_info, msg) ==
    StandardizeResult(PyStr(""), query_info, FALSE, PyStr(msg))

\* result_text = ""; for block in response.content: if hasattr(block, "text")
RECURSIVE JoinTextBlocks(_)
JoinTextBlocks(blocks) ==
    IF blocks = <<>> THEN ""
    ELSE (IF "text" \in DOMAIN Head(blocks) THEN Head(blocks).text ELSE "")
         \o JoinTextBlocks(Tail(blocks))

\* messages.create(...) of the Anthropic SDK followed by the extraction of the
\* text: the text, or the exception raised on the way
AnthropicText(backend) ==
    IF backend.kind = "raise" THEN Raised("APIError", backend.msg)
    ELSE IF backend.content.py # "list"
    THEN Raised("TypeError", "'NoneType' object is not iterable")
    ELSE Returned(PyStr(JoinTextBlocks(backend.content.v)))

\* chat.completions.create(...) of the OpenAI SDK followed by
\* response.choices[0].message.content
OpenAIText(backend) ==
    IF backend.kind = "raise" THEN Raised("APIError", backend.msg)
    ELSE IF backend.choices = <<>>
    THEN Raised("IndexError", "list index out of range")
    ELSE Returned(backend.choices[1].content)

---------------------------------------------------------------------------
(* providers/claude_provider.py *)

ClaudeProvider(cfg, e) ==
    LET claude_config == Get(ProviderConfig(cfg), "claude", EmptyDict)
    IN Returned([class  |-> "ClaudeProvider",
                 model  |-> Get(claude_config, "model", PyStr(<<"claude-sonnet-4-20250514">>)),
                 client |-> IF "ANTHROPIC_API_KEY" \in e.keys /\ "anthropic" \in e.sdk
                            THEN PyObj("Anthropic") ELSE PyNone])

ClaudeValidate(self, e) ==
    IF "anthropic" \notin e.sdk THEN FALSE
    ELSE IF "ANTHROPIC_API_KEY" \notin e.keys THEN FALSE
    ELSE IF self.client = PyNone THEN FALSE
    ELSE TRUE

ClaudeSearch(self, query_info, backend) ==
    IF self.client = PyNone
    THEN FailedResult(query_info, "'NoneType' object has no attribute 'messages'")
    ELSE LET r == AnthropicText(backend)
         IN IF r.ok
            THEN StandardizeResult(r.value, query_info, TRUE, PyNone)
            ELSE FailedResult(query_info, r.error)

\* claude_search.search_with_claude(client, query, query_info), lines 92-120
search_with_claude(query_info, backend) ==
    LET r == AnthropicText(backend)
    IN IF r.ok
       THEN [query_info |-> query_info,
             text       |-> r.value,
             success    |-> TRUE,
             timestamp  |-> "now"]
       ELSE [query_info |-> query_info,
             text       |-> PyStr(""),
             success    |-> FALSE,
             error      |-> PyStr(r.error),
             timestamp  |-> "now"]

---------------------------------------------------------------------------
(* providers/openrouter_provider.py *)

HasOnlineSuffix(model) == \E i \in DOMAIN model.v : model.v[i] = ":online"

OpenRouterProvider(cfg, e) ==
    LET openrouter_config == Get(ProviderConfig(cfg), "openrouter", EmptyDict)
        model == Get(openrouter_config, "model", PyStr(<<"openai/gpt-4o", ":online">>))
    IN IF ~IsStr(model)
       THEN Raised("TypeError", "argument of type 'int' is not iterable")
       ELSE Returned([class  |-> "OpenRouterProvider",
                      model  |-> IF HasOnlineSuffix(model) THEN model
                                 ELSE PyStr(model.v \o <<":online">>),
                      client |-> IF "OPENROUTER_API_KEY" \in e.keys /\ "openai" \in e.sdk
                                 THEN PyObj("OpenAI") ELSE PyNone])

OpenRouterValidate(self, e) ==
    IF "openai" \notin e.sdk THEN FALSE
    ELSE IF "OPENROUTER_API_KEY" \notin e.keys THEN FALSE
    ELSE IF self.client = PyNone THEN FALSE
    ELSE TRUE

OpenRouterSearch(self, query_info, backend) ==
    IF self.client = PyNone
    THEN FailedResult(query_info, "'NoneType' object has no attribute 'chat'")
    ELSE LET r == OpenAIText(backend)
         IN IF r.ok
            THEN StandardizeResult(r.value, query_info, TRUE, PyNone)
            ELSE FailedResult(query_info, r.error)

---------------------------------------------------------------------------
(* providers/ollama_provider.py *)

OllamaNote ==
    "[Note: Ollama response based on training data. For real-time web search, use MCP provider with Ollama as LLM backend.]"

OllamaProvider(cfg, e) ==
    LET ollama_config == Get(ProviderConfig(cfg), "ollama", EmptyDict)
    IN Returned([class  |-> "OllamaProvider",
                 model  |-> Get(ollama_config, "model", PyStr(<<"llama3.1:latest">>)),
                 client |-> IF "ollama" \in e.sdk THEN PyObj("ollama") ELSE PyNone])

\* ollama.list() raises when the service is down; the model must be listed
OllamaValidate(self, e) ==
    IF "ollama" \notin e.sdk THEN FALSE
    ELSE IF e.service = "down" THEN FALSE
    ELSE IF e.service = "no_model" THEN FALSE
    ELSE TRUE

\* as OllamaSearch, with the note added only to a non-empty response
OllamaSearchNoteIfText(self, query_info, backend, e) ==
    IF "ollama" \notin e.sdk
    THEN FailedResult(query_info, "'NoneType' object has no attribute 'chat'")
    ELSE IF backend.kind = "raise"
    THEN FailedResult(query_info, backend.msg)
    ELSE LET content == Get(Get(backend.response, "message", EmptyDict), "content", PyStr(""))
         IN IF ~IsStr(content)
            THEN FailedResult(query_info,
                     "unsupported operand type(s) for +=: 'NoneType' and 'str'")
            ELSE StandardizeResult(IF content.v = "" THEN content
                                   ELSE PyStr(content.v \o "\n\n" \o OllamaNote),
                                   query_info, TRUE, PyNone)

\* the module `ollama` is used, not self.client
OllamaSearch(self, query_info, backend, e) ==
    IF "ollama" \notin e.sdk
    THEN FailedResult(query_info, "'NoneType' object has no attribute 'chat'")
    ELSE IF backend.kind = "raise"
    THEN FailedResult(query_info, backend.msg)
    ELSE LET content == Get(Get(backend.response, "message", EmptyDict), "content", PyStr(""))
         IN IF ~IsStr(content)
            THEN FailedResult(query_info,
                     "unsupported operand type(s) for +=: 'NoneType' and 'str'")
            ELSE StandardizeResult(PyStr(content.v \o "\n\n" \o OllamaNote),
                                   query_info, TRUE, PyNone)

---------------------------------------------------------------------------
(* providers/mcp_provider.py *)

ModelMentions(model, words) == \E i \in DOMAIN model.v : model.v[i] \in words

\* MCPProvider._detect_llm_type
DetectLLMType(model) ==
    IF ModelMentions(model, {"claude"}) THEN "claude"
    ELSE IF ModelMentions(model, {"gpt", "openai"}) THEN "openai"
    ELSE IF ModelMentions(model, {"gemini", "google"}) THEN "openai"
    ELSE "claude"

MCPProvider(cfg, e) ==
    LET mcp_config == Get(ProviderConfig(cfg), "mcp", EmptyDict)
        model == Get(mcp_config, "model", PyStr(<<"claude", "-sonnet-4-20250514">>))
    IN IF ~IsStr(model)
       THEN Raised("AttributeError", "'int' object has no attribute 'lower'")
       ELSE Returned([class       |-> "MCPProvider",
                      server_type |-> Get(mcp_config, "server_type", "websearch-mcp"),
                      model       |-> model,
                      mcp_client  |-> PyNone,
                      llm_client  |-> PyNone,
                      llm_type    |-> DetectLLMType(model)])

\* as MCPRequiredEnvVars, with the LLM's key asked for only until the LLM
\* client exists
MCPRequiredEnvVarsUntilConnected(self) ==
    (IF self.server_type = "serpapi" THEN <<"SERPAPI_API_KEY">>
     ELSE IF self.server_type = "brave" THEN <<"BRAVE_API_KEY">>
     ELSE <<>>)
    \o
    (IF self.llm_client # PyNone THEN <<>>
     ELSE IF self.llm_type = "claude" THEN <<"ANTHROPIC_API_KEY">>
     ELSE IF self.llm_type = "openai" THEN <<"OPENAI_API_KEY">>
     ELSE <<>>)

MCPRequiredEnvVars(self) ==
    (IF self.server_type = "serpapi" THEN <<"SERPAPI_API_KEY">>
     ELSE IF self.server_type = "brave" THEN <<"BRAVE_API_KEY">>
     ELSE <<>>)
    \o
    (IF self.llm_type = "claude" THEN <<"ANTHROPIC_API_KEY">>
     ELSE IF self.llm_type = "openai" THEN <<"OPENAI_API_KEY">>
     ELSE <<>>)

MCPValidate(self, e) ==
    IF "mcp" \notin e.sdk THEN FALSE
    ELSE IF self.llm_type = "claude" /\ "anthropic" \notin e.sdk THEN FALSE
    ELSE IF self.llm_type = "openai" /\ "openai" \notin e.sdk THEN FALSE
    ELSE \A i \in DOMAIN MCPRequiredEnvVars(self) : MCPRequiredEnvVars(self)[i] \in e.keys

\* MCPProvider._perform_web_search: the text it returns and the provider after it
MCPPerformWebSearch(self, e) ==
    IF self.mcp_client = PyNone /\ "mcp" \notin e.sdk
    THEN [text |-> "Error performing MCP search: MCP package not available",
          self |-> self]
    ELSE [text |-> "[Simulated MCP search results]",
          self |-> [self EXCEPT !.mcp_client = PyObj("MCPClient")]]

\* MCPProvider._init_llm_client, for a provider without an llm_client
MCPInitLLMClient(self, e) ==
    IF self.llm_type = "claude"
    THEN IF "anthropic" \in e.sdk THEN Returned(PyObj("Anthropic"))
         ELSE Raised("TypeError", "'NoneType' object is not callable")
    ELSE IF "openai" \in e.sdk THEN Returned(PyObj("OpenAI"))
         ELSE Raised("TypeError", "'NoneType' object is not callable")

\* MCPProvider._analyze_with_llm: the value it returns and the provider after it
MCPAnalyzeWithLLM(self, backend, e) ==
    LET init == IF self.llm_client = PyNone THEN MCPInitLLMClient(self, e)
                ELSE Returned(self.llm_client)
    IN IF ~init.ok
       THEN [text |-> PyStr("Error analyzing with LLM: " \o init.error), self |-> self]
       ELSE LET self1 == [self EXCEPT !.llm_client = init.value]
                r == IF self.llm_type = "claude" THEN AnthropicText(backend)
                     ELSE OpenAIText(backend)
            IN IF r.ok THEN [text |-> r.value, self |-> self1]
               ELSE [text |-> PyStr("Error analyzing with LLM: " \o r.error),
                     self |-> self1]

\* MCPProvider.search: the result and the provider after the call
MCPSearch(self, query_info, backend, e) ==
    LET web == MCPPerformWebSearch(self, e)
        llm == MCPAnalyzeWithLLM(web.self, backend, e)
    IN [result |-> StandardizeResult(llm.text, query_info, TRUE, PyNone),
        self   |-> llm.self]

---------------------------------------------------------------------------
(* providers/factory.py *)

PROVIDERS == <<"claude", "openrouter", "ollama", "mcp">>

Registered(name) == \E i \in DOMAIN PROVIDERS : PROVIDERS[i] = name

\* provider_name.lower().strip(), on the names the model uses
LowerStrip(name) ==
    CASE name = " Claude " -> "claude"
      [] name = "MCP"      -> "mcp"
      [] name = "Bogus "   -> "bogus"
      [] OTHER             -> name

\* ", ".join(names)
RECURSIVE JoinNames(_)
JoinNames(names) ==
    IF names = <<>> THEN ""
    ELSE IF Len(names) = 1 THEN names[1]
    ELSE names[1] \o ", " \o JoinNames(Tail(names))

\* PROVIDERS[provider_name](config)
Construct(name, cfg, e) ==
    CASE name = "claude"     -> ClaudeProvider(cfg, e)
      [] name = "openrouter" -> OpenRouterProvider(cfg, e)
      [] name = "ollama"     -> OllamaProvider(cfg, e)
      [] name = "mcp"        -> MCPProvider(cfg, e)

\* as create_provider, with the name looked up as it was given
CreateExactName(provider_name, cfg, e) ==
    IF ~Registered(provider_name)
    THEN Raised("ValueError",
                "Unknown provider: '" \o provider_name \o "'. Available providers: "
                    \o JoinNames(PROVIDERS))
    ELSE Construct(provider_name, cfg, e)

\* as list_providers, with one list object handed to every caller
ListProvidersShared == IF listed = <<>> THEN PROVIDERS ELSE listed[Len(listed)]

\* list_providers: a new list of the registry's keys
list_providers == PROVIDERS

\* create_provider: the instance, or the exception raised
create_provider(provider_name, cfg, e) ==
    LET name == LowerStrip(provider_name)
    IN IF ~Registered(name)
       THEN Raised("ValueError",
                   "Unknown provider: '" \o name \o "'. Available providers: "
                       \o JoinNames(PROVIDERS))
       ELSE Construct(name, cfg, e)

\* provider.validate_config()
validate_config(self, e) ==
    CASE self.class = "ClaudeProvider"     -> ClaudeValidate(self, e)
      [] self.class = "OpenRouterProvider" -> OpenRouterValidate(self, e)
      [] self.class = "OllamaProvider"     -> OllamaValidate(self, e)
      [] self.class = "MCPProvider"        -> MCPValidate(self, e)

\* provider.get_required_env_vars()
get_required_env_vars(self) ==
    CASE self.class = "ClaudeProvider"     -> <<"ANTHROPIC_API_KEY">>
      [] self.class = "OpenRouterProvider" -> <<"OPENROUTER_API_KEY">>
      [] self.class = "OllamaProvider"     -> <<>>
      [] self.class = "MCPProvider"        -> MCPRequiredEnvVars(self)

\* provider.search(query, query_info): the result and the provider after it
search(self, query_info, backend, e) ==
    CASE self.class = "ClaudeProvider" ->
            [result |-> ClaudeSearch(self, query_info, backend), self |-> self]
      [] self.class = "OpenRouterProvider" ->
            [result |-> OpenRouterSearch(self, query_info, backend), self |-> self]
      [] self.class = "OllamaProvider" ->
            [result |-> OllamaSearch(self, query_info, backend, e), self |-> self]
      [] self.class = "MCPProvider" ->
            MCPSearch(self, query_info, backend, e)

---------------------------------------------------------------------------
(* The backends and the environment *)

ErrorMessages == {"", "503 unavailable"}

\* what messages.create of the Anthropic SDK can do
AnthropicBackends ==
    { [kind |-> "raise", msg |-> m] : m \in ErrorMessages }
    \cup { [kind |-> "response", content |-> c] :
             c \in { PyNone, PyList(<<>>), PyList(<<[text |-> "venues"]>>),
                     PyList(<<[type |-> "tool_use"], [text |-> "a"], [text |-> "b"]>>) } }

\* what chat.completions.create of the OpenAI SDK can do
OpenAIBackends ==
    { [kind |-> "raise", msg |-> m] : m \in ErrorMessages }
    \cup { [kind |-> "response", choices |-> c] :
             c \in { <<>>, <<[content |-> PyStr("venues")]>>, <<[content |-> PyNone]>> } }

\* what ollama.chat can do
OllamaBackends ==
    { [kind |-> "raise", msg |-> m] : m \in ErrorMessages }
    \cup { [kind |-> "response", response |-> r] :
             r \in { EmptyDict,
                     "message" :> EmptyDict,
                     "message" :> ("content" :> PyStr("venues")),
                     "message" :> ("content" :> PyStr("")),
                     "message" :> ("content" :> PyNone) } }

BackendsOf(self) ==
    CASE self.class = "ClaudeProvider"     -> AnthropicBackends
      [] self.class = "OpenRouterProvider" -> OpenAIBackends
      [] self.class = "OllamaProvider"     -> OllamaBackends
      [] self.class = "MCPProvider"        ->
            IF self.llm_type = "claude" THEN AnthropicBackends ELSE OpenAIBackends

\* the answers a run of the orchestrator draws from: per backend one raised
\* error, one readable response and one response without text
RunBackendsOf(self) ==
    { b \in BackendsOf(self) :
        IF b.kind = "raise" THEN b.msg # ""
        ELSE IF "content" \in DOMAIN b
             THEN b.content \in { PyNone, PyList(<<[text |-> "venues"]>>) }
        ELSE IF "choices" \in DOMAIN b
             THEN b.choices # <<>>
        ELSE b.response \in { "message" :> ("content" :> PyStr("venues")),
                              "message" :> ("content" :> PyNone) } }

\* the environments a provider of the given registered name can find
EnvsOf(name) ==
    CASE name = "claude" ->
            { [sdk |-> s, keys |-> k, service |-> "down"] :
                s \in SUBSET {"anthropic"}, k \in SUBSET {"ANTHROPIC_API_KEY"} }
      [] name = "openrouter" ->
            { [sdk |-> s, keys |-> k, service |-> "down"] :
                s \in SUBSET {"openai"}, k \in SUBSET {"OPENROUTER_API_KEY"} }
      [] name = "ollama" ->
            { [sdk |-> s, keys |-> {}, service |-> v] :
                s \in SUBSET {"ollama"}, v \in {"down", "no_model", "ready"} }
      [] name = "mcp" ->
            { [sdk |-> s, keys |-> k, service |-> "down"] :
                s \in { {}, {"mcp"}, {"mcp", "anthropic"}, {"mcp", "openai"} },
                k \in { {}, {"ANTHROPIC_API_KEY"}, {"OPENAI_API_KEY"} } }
      [] OTHER -> { NoEnv }

---------------------------------------------------------------------------
(* unified_search.py: execute_searches, run_daily_searches, single_search *)

\* as PrimaryName, with the configured default looked at before the override
PrimaryNameConfigFirst ==
    IF "default_provider" \in DOMAIN ProviderConfig(config)
    THEN ProviderConfig(config)["default_provider"]
    ELSE IF Truthy(provider_arg) THEN provider_arg.v ELSE "claude"

\* provider_name = provider_name or provider_config.get("default_provider", "claude")
PrimaryName ==
    IF Truthy(provider_arg) THEN provider_arg.v
    ELSE Get(ProviderConfig(config), "default_provider", "claude")

\* fallback_providers = provider_config.get("fallback_providers", [])
FallbackProviders == Get(ProviderConfig(config), "fallback_providers", <<>>)

\* the name of candidate i: the primary, then the fallbacks as listed
CandidateName(i) == IF i = 0 THEN PrimaryName ELSE FallbackProviders[i]

\* as CountSuccessful, counting every result
CountEveryResult(rs) == Len(rs)

\* sum(1 for r in results if r["success"])
RECURSIVE CountSuccessful(_)
CountSuccessful(rs) ==
    IF rs = <<>> THEN 0
    ELSE (IF Head(rs).success THEN 1 ELSE 0) + CountSuccessful(Tail(rs))

\* as OutputData, with the name the run was asked for as the provider
OutputDataConfiguredName(prov, qs, rs) ==
    [date        |-> "now",
     provider    |-> LowerStrip(PrimaryName),
     queries_run |-> Len(qs),
     successful  |-> CountSuccessful(rs),
     results     |-> rs]

\* output_data of execute_searches
OutputData(prov, qs, rs) ==
    [date        |-> "now",
     provider    |-> get_provider_name(prov),
     queries_run |-> Len(qs),
     successful  |-> CountSuccessful(rs),
     results     |-> rs]

Event(op, arg, ret) == [op |-> op, inst |-> cand, arg |-> arg, ret |-> ret]

\* an exception leaves the try block of run_daily_searches: the handler of
\* the primary (line 162) or of the current fallback (line 174) prints it and
\* the next fallback is due; the frame of execute_searches is gone
ExceptionInRun(msg) ==
    /\ diag' = Append(diag, [name   |-> CandidateName(cand),
                             role   |-> IF cand = 0 THEN "Provider" ELSE "Fallback",
                             reason |-> msg])
    /\ cand' = cand + 1
    /\ pc' = "fallback"
    /\ queries' = <<>>
    /\ results' = <<>>
    /\ env' = NoEnv

\* create_provider(...) at line 155 (primary) or 169 (fallback)
CreateCandidate ==
    \E e \in EnvsOf(LowerStrip(CandidateName(cand))) :
        LET r == create_provider(CandidateName(cand), config, e)
        IN /\ calls' = Append(calls, Event("create", CandidateName(cand), r.ok))
           /\ \/ /\ r.ok
                 /\ provider' = r.value
                 /\ env' = e
                 /\ pc' = "validate"
                 /\ UNCHANGED <<cand, diag, queries, results>>
              \/ /\ ~r.ok
                 /\ ExceptionInRun(r.error)
                 /\ UNCHANGED provider
           /\ UNCHANGED <<db, dblog, args, conn, connections, raised,
                          disk, listed, config, max_queries, provider_arg, mode, files>>

CreatePrimary ==
    /\ mode = "daily"
    /\ pc = "start"
    /\ CreateCandidate

CreateFallback ==
    /\ mode = "daily"
    /\ pc = "fallback"
    /\ cand <= Len(FallbackProviders)
    /\ CreateCandidate

\* lines 157-158: a primary that does not validate raises RuntimeError
ValidatePrimary ==
    /\ mode = "daily"
    /\ pc = "validate"
    /\ cand = 0
    /\ LET v == validate_config(provider, env)
       IN /\ calls' = Append(calls, Event("validate", PyNone, v))
          /\ \/ /\ v
                /\ pc' = "execute"
                /\ UNCHANGED <<cand, diag, queries, results, env>>
             \/ /\ ~v
                /\ ExceptionInRun(PrimaryName \o " configuration validation failed")
    /\ UNCHANGED <<db, dblog, args, conn, connections, raised,
                   disk, listed, config, max_queries, provider_arg, mode, provider, files>>

\* as ValidateFallback, with the result of validate_config not looked at
ValidateFallbackUnchecked ==
    /\ mode = "daily"
    /\ pc = "validate"
    /\ cand > 0
    /\ calls' = Append(calls, Event("validate", PyNone, validate_config(provider, env)))
    /\ pc' = "execute"
    /\ UNCHANGED <<db, dblog, args, conn, connections, raised,
                   disk, listed, config, max_queries, provider_arg, mode, cand, provider, queries,
                   results, files, diag, env>>

\* as ValidateFallback, with a fallback that does not validate tried again
ValidateFallbackAgain ==
    /\ mode = "daily"
    /\ pc = "validate"
    /\ cand > 0
    /\ LET v == validate_config(provider, env)
       IN /\ calls' = Append(calls, Event("validate", PyNone, v))
          /\ \/ /\ v
                /\ pc' = "execute"
                /\ UNCHANGED <<cand, env>>
             \/ /\ ~v
                /\ pc' = "fallback"
                /\ cand' = cand
                /\ env' = NoEnv
    /\ UNCHANGED <<db, dblog, args, conn, connections, raised,
                   disk, listed, config, max_queries, provider_arg, mode, provider, queries,
                   results, files, diag>>

\* line 171: a fallback that does not validate is passed over
ValidateFallback ==
    /\ mode = "daily"
    /\ pc = "validate"
    /\ cand > 0
    /\ LET v == validate_config(provider, env)
       IN /\ calls' = Append(calls, Event("validate", PyNone, v))
          /\ \/ /\ v
                /\ pc' = "execute"
                /\ UNCHANGED <<cand, env>>
             \/ /\ ~v
                /\ pc' = "fallback"
                /\ cand' = cand + 1
                /\ env' = NoEnv
    /\ UNCHANGED <<db, dblog, args, conn, connections, raised,
                   disk, listed, config, max_queries, provider_arg, mode, provider, queries,
                   results, files, diag>>

\* execute_searches, lines 88-97
BeginExecute ==
    /\ mode = "daily"
    /\ pc = "execute"
    /\ queries' = build_search_queries(config, max_queries)
    /\ results' = <<>>
    /\ pc' = "search"
    /\ UNCHANGED <<db, dblog, args, conn, connections, raised,
                   disk, listed, config, max_queries, provider_arg, mode, cand, provider,
                   files, calls, diag, env>>

\* as SearchQuery, with a failed result not recorded, so that the query is
\* sent again
SearchQueryRetrying ==
    /\ mode = "daily"
    /\ pc = "search"
    /\ Len(results) < Len(queries)
    /\ \E backend \in RunBackendsOf(provider) :
         LET q == queries[Len(results) + 1]
             r == search(provider, q, backend, env)
         IN /\ calls' = Append(calls, Event("search", q, "result"))
            /\ provider' = r.self
            /\ results' = IF r.result.success THEN Append(results, r.result) ELSE results
    /\ UNCHANGED <<db, dblog, args, conn, connections, raised,
                   disk, listed, config, max_queries, provider_arg, mode, pc, cand, queries,
                   files, diag, env>>

\* execute_searches, lines 99-108: one turn of the loop.  len(result['text'])
\* raises TypeError for a successful result whose text is None.
SearchQuery ==
    /\ mode = "daily"
    /\ pc = "search"
    /\ Len(results) < Len(queries)
    /\ \E backend \in RunBackendsOf(provider) :
         LET q == queries[Len(results) + 1]
             r == search(provider, q, backend, env)
         IN /\ calls' = Append(calls, Event("search", q, "result"))
            /\ provider' = r.self
            /\ \/ /\ r.result.success => IsStr(r.result.text)
                  /\ results' = Append(results, r.result)
                  /\ UNCHANGED <<pc, cand, diag, queries, env>>
               \/ /\ r.result.success
                  /\ ~IsStr(r.result.text)
                  /\ ExceptionInRun("object of type 'NoneType' has no len()")
    /\ UNCHANGED <<db, dblog, args, conn, connections, raised,
                   disk, listed, config, max_queries, provider_arg, mode, files>>

\* datetime.now().strftime('%Y%m%d_%H%M'): the time, cut to its minute
Strftime(t) == t \div TicksPerMinute

\* RESULTS_DIR / f"daily_{...}.json"
ResultsFileName(t) == <<"daily_", Strftime(t), ".json">>

\* the clock runs forward: the times datetime.now() can return when the
\* given documents were written earlier; time is counted from the first write
Now(written) ==
    IF written = <<>> THEN {0}
    ELSE { t \in 1..MaxTime : \A f \in DOMAIN written : written[f].date < t }

\* open(results_file, "w") and json.dump: the file holds the document alone
WriteFile(dir, name, data) ==
    [n \in DOMAIN dir \cup {name} |-> IF n = name THEN data ELSE dir[n]]

\* execute_searches, lines 110-130: the batch is written, or the write raises
SaveResults ==
    /\ mode = "daily"
    /\ pc = "search"
    /\ Len(results) = Len(queries)
    /\ \/ \E t \in Now(files) :
            LET output_data == [OutputData(provider, queries, results) EXCEPT !.date = t]
            IN /\ files' = Append(files, output_data)
               /\ disk' = WriteFile(disk, ResultsFileName(t), output_data)
               /\ pc' = "done"
               /\ UNCHANGED <<cand, diag, queries, results, env>>
       \/ /\ ExceptionInRun("[Errno 28] No space left on device")
          /\ UNCHANGED <<files, disk>>
    /\ UNCHANGED <<db, dblog, args, conn, connections, raised, listed, config, max_queries, provider_arg, mode,
                   provider, calls>>

\* as AllProvidersFailed, with the selection started over instead of the exit
AllProvidersFailedRetry ==
    /\ mode = "daily"
    /\ pc = "fallback"
    /\ cand > Len(FallbackProviders)
    /\ pc' = "start"
    /\ cand' = 0
    /\ UNCHANGED <<db, dblog, args, conn, connections, raised,
                   disk, listed, config, max_queries, provider_arg, mode, provider,
                   queries, results, files, calls, diag, env>>

\* lines 177-187: print the error, sys.exit(1)
AllProvidersFailed ==
    /\ mode = "daily"
    /\ pc = "fallback"
    /\ cand > Len(FallbackProviders)
    /\ pc' = "exit1"
    /\ UNCHANGED <<db, dblog, args, conn, connections, raised,
                   disk, listed, config, max_queries, provider_arg, mode, cand, provider,
                   queries, results, files, calls, diag, env>>

AdhocQuery == <<"adhoc", "query">>
AdhocQueryInfo == [query |-> AdhocQuery, type |-> "adhoc"]

\* single_search, lines 196-198 and 213-215
SingleCreate ==
    /\ mode = "single"
    /\ pc = "start"
    /\ \E e \in EnvsOf(LowerStrip(PrimaryName)) :
         LET r == create_provider(PrimaryName, config, e)
         IN /\ calls' = Append(calls, Event("create", PrimaryName, r.ok))
            /\ \/ /\ r.ok
                  /\ provider' = r.value
                  /\ env' = e
                  /\ pc' = "validate"
                  /\ UNCHANGED diag
               \/ /\ ~r.ok
                  /\ diag' = Append(diag, [name |-> PrimaryName, role |-> "Error",
                                           reason |-> r.error])
                  /\ pc' = "exit1"
                  /\ UNCHANGED <<provider, env>>
    /\ UNCHANGED <<db, dblog, args, conn, connections, raised,
                   disk, listed, config, max_queries, provider_arg, mode, cand, queries,
                   results, files>>

\* as SingleValidate, going on to the search whatever validate_config said
SingleValidateNoExit ==
    /\ mode = "single"
    /\ pc = "validate"
    /\ calls' = Append(calls, Event("validate", PyNone, validate_config(provider, env)))
    /\ pc' = "search"
    /\ UNCHANGED <<db, dblog, args, conn, connections, raised,
                   disk, listed, config, max_queries, provider_arg, mode, cand, provider,
                   queries, results, files, diag, env>>

\* single_search, lines 200-202: sys.exit(1) passes `except Exception`
SingleValidate ==
    /\ mode = "single"
    /\ pc = "validate"
    /\ LET v == validate_config(provider, env)
       IN /\ calls' = Append(calls, Event("validate", PyNone, v))
          /\ pc' = IF v THEN "search" ELSE "exit1"
    /\ UNCHANGED <<db, dblog, args, conn, connections, raised,
                   disk, listed, config, max_queries, provider_arg, mode, cand, provider,
                   queries, results, files, diag, env>>

\* single_search, lines 204-211
SingleSearch ==
    /\ mode = "single"
    /\ pc = "search"
    /\ \E backend \in RunBackendsOf(provider) :
         LET r == search(provider, AdhocQueryInfo, backend, env)
         IN /\ calls' = Append(calls, Event("search", AdhocQueryInfo, "result"))
            /\ provider' = r.self
            /\ results' = <<r.result>>
    /\ pc' = "done"
    /\ UNCHANGED <<db, dblog, args, conn, connections, raised,
                   disk, listed, config, max_queries, provider_arg, mode, cand, queries,
                   files, diag, env>>

---------------------------------------------------------------------------
(* Specification of a run of unified_search.py --daily / --query *)

RunNames == {"claude", "openrouter", "ollama", "mcp", "bogus"}
FallbackNames == {"claude", "openrouter", "bogus"}

NameLists(n) == UNION { [1..k -> FallbackNames] : k \in 0..n }

\* the section [search_provider]: every key is optional
SearchProviderSections ==
    { d @@ f @@ x :
        d \in {EmptyDict} \cup { "default_provider" :> n : n \in RunNames },
        f \in {EmptyDict} \cup { "fallback_providers" :> l : l \in NameLists(MaxFallbacks) },
        x \in {EmptyDict, "openrouter" :> ("model" :> PyInt(7))} }

\* one region of two cities and both templates: up to four queries
RunQueryConfig ==
    ("regions" :> << [key  |-> "r1",
                      data |-> ("priority" :> 1) @@ ("cities" :> SubSeq(CityNames, 1, 2))] >>)
    @@ ("search_templates" :>
          (("new_venues" :> <<Template1>>) @@ ("booking_opportunities" :> <<Template2>>)))

\* venues.toml without [regions], without [search_templates], or without both
PartialQueryConfigs ==
    { EmptyDict,
      "regions" :> RunQueryConfig["regions"],
      "search_templates" :> RunQueryConfig["search_templates"] }

Init ==
    /\ mode \in {"daily", "single"}
    /\ config \in { ("search_provider" :> sp) @@ RunQueryConfig : sp \in SearchProviderSections }
                  \cup { RunQueryConfig }
                  \cup { sp @@ q :
                            sp \in { EmptyDict,
                                     "search_provider" :> ("default_provider" :> "ollama") },
                            q \in PartialQueryConfigs }
    /\ max_queries \in 0..MaxRunQueries
    /\ provider_arg \in {PyNone, PyStr(""), PyStr("MCP")}
    /\ Truthy(provider_arg) => Len(FallbackProviders) <= 1
    /\ provider_arg = PyStr("") => FallbackProviders = <<>>
    /\ pc = "start"
    /\ cand = 0
    /\ provider = PyNone
    /\ queries = <<>>
    /\ results = <<>>
    /\ files = <<>>
    /\ calls = <<>>
    /\ diag = <<>>
    /\ env = NoEnv
    /\ listed = <<>>
    /\ disk = EmptyDict
    /\ OthersIdle

Next ==
    \/ CreatePrimary
    \/ ValidatePrimary
    \/ CreateFallback
    \/ ValidateFallback
    \/ BeginExecute
    \/ SearchQuery
    \/ SaveResults
    \/ AllProvidersFailed
    \/ SingleCreate
    \/ SingleValidate
    \/ SingleSearch

Spec == Init /\ [][Next]_vars

\* the run is one sequential process: a step whose call has returned is
\* followed by the next step
Fairness ==
    /\ WF_vars(CreatePrimary)
    /\ WF_vars(ValidatePrimary)
    /\ WF_vars(CreateFallback)
    /\ WF_vars(ValidateFallback)
    /\ []<>~(mode = "daily" /\ pc = "execute")  \* WF_vars(BeginExecute), with
                                                 \* ENABLED BeginExecute written out
    /\ WF_vars(SearchQuery)
    /\ WF_vars(SaveResults)
    /\ WF_vars(AllProvidersFailed)
    /\ WF_vars(SingleCreate)
    /\ WF_vars(SingleValidate)
    /\ WF_vars(SingleSearch)

SpecFair == Init /\ [][Next]_vars /\ Fairness

---------------------------------------------------------------------------
(* Specification of successive daily runs that share RESULTS_DIR *)

InitRuns ==
    /\ mode = "daily"
    /\ config \in { RunQueryConfig,
                     ("search_provider" :> ("fallback_providers" :> <<"openrouter">>))
                         @@ RunQueryConfig }
    /\ max_queries \in 0..MaxRunQueries
    /\ provider_arg = PyNone
    /\ pc = "start"
    /\ cand = 0
    /\ provider = PyNone
    /\ queries = <<>>
    /\ results = <<>>
    /\ files = <<>>
    /\ calls = <<>>
    /\ diag = <<>>
    /\ env = NoEnv
    /\ listed = <<>>
    /\ disk = EmptyDict
    /\ OthersIdle

\* the process has ended and unified_search.py --daily is started again, with
\* the same venues.toml and the results directory as the last run left it
StartNextRun ==
    /\ mode = "daily"
    /\ pc \in {"done", "exit1"}
    /\ Len(files) < MaxRuns
    /\ pc' = "start"
    /\ cand' = 0
    /\ provider' = PyNone
    /\ queries' = <<>>
    /\ results' = <<>>
    /\ calls' = <<>>
    /\ diag' = <<>>
    /\ env' = NoEnv
    /\ UNCHANGED <<db, dblog, args, conn, connections, raised, config, max_queries, provider_arg, mode, files,
                   listed, disk>>

NextRuns ==
    \/ CreatePrimary
    \/ ValidatePrimary
    \/ CreateFallback
    \/ ValidateFallback
    \/ BeginExecute
    \/ SearchQuery
    \/ SaveResults
    \/ AllProvidersFailed
    \/ StartNextRun

SpecRuns == InitRuns /\ [][NextRuns]_vars

---------------------------------------------------------------------------
(* Specification of one provider, used directly *)

\* the sections [search_provider.<name>] a provider can find
ProviderSections ==
    { EmptyDict,
      "openrouter" :> ("model" :> PyInt(7)),
      "openrouter" :> ("model" :> PyStr(<<"openai/gpt-4o">>)),
      "mcp" :> ("model" :> PyInt(7)),
      "mcp" :> ("model" :> PyStr(<<"gpt", "-4o">>)),
      "mcp" :> (("model" :> PyStr(<<"llama3">>)) @@ ("server_type" :> "brave")) }

InitProvider ==
    /\ mode = "provider"
    /\ config \in { "search_provider" :> x : x \in ProviderSections } \cup { EmptyDict }
    /\ max_queries = 0
    /\ provider_arg \in { PyStr(n) : n \in RunNames \cup {" Claude ", "Bogus "} }
    /\ pc = "start"
    /\ cand = 0
    /\ provider = PyNone
    /\ queries = <<>>
    /\ results = <<>>
    /\ files = <<>>
    /\ calls = <<>>
    /\ diag = <<>>
    /\ env = NoEnv
    /\ listed = <<>>
    /\ disk = EmptyDict
    /\ OthersIdle

\* create_provider(name, config)
ProviderCreate ==
    /\ mode = "provider"
    /\ pc = "start"
    /\ \E e \in EnvsOf(LowerStrip(provider_arg.v)) :
         LET r == create_provider(provider_arg.v, config, e)
         IN \/ /\ r.ok
               /\ provider' = r.value
               /\ env' = e
               /\ pc' = "ready"
               /\ UNCHANGED diag
            \/ /\ ~r.ok
               /\ diag' = Append(diag, [name |-> provider_arg.v, role |-> r.type,
                                        reason |-> r.error])
               /\ pc' = "raised"
               /\ UNCHANGED <<provider, env>>
    /\ UNCHANGED <<db, dblog, args, conn, connections, raised,
                   disk, listed, config, max_queries, provider_arg, mode, cand, queries,
                   results, files, calls>>

\* provider.validate_config()
ProviderValidate ==
    /\ mode = "provider"
    /\ pc = "ready"
    /\ Len(calls) < MaxProviderCalls
    /\ calls' = Append(calls, Event("validate", PyNone, validate_config(provider, env)))
    /\ UNCHANGED <<db, dblog, args, conn, connections, raised,
                   disk, listed, config, max_queries, provider_arg, mode, pc, cand, provider,
                   queries, results, files, diag, env>>

\* provider.search(query, query_info), whatever validate_config said
ProviderSearch ==
    /\ mode = "provider"
    /\ pc = "ready"
    /\ Len(calls) < MaxProviderCalls
    /\ \E backend \in BackendsOf(provider) :
         LET r == search(provider, AdhocQueryInfo, backend, env)
         IN /\ calls' = Append(calls,
                           Event("search", [self |-> provider, backend |-> backend], r.result))
            /\ provider' = r.self
    /\ UNCHANGED <<db, dblog, args, conn, connections, raised,
                   disk, listed, config, max_queries, provider_arg, mode, pc, cand, queries,
                   results, files, diag, env>>

\* list_providers(), at any point of the process
ProviderList ==
    /\ mode = "provider"
    /\ Len(calls) < MaxProviderCalls
    /\ calls' = Append(calls, Event("list", PyNone, list_providers))
    /\ listed' = Append(listed, list_providers)
    /\ UNCHANGED <<db, dblog, args, conn, connections, raised,
                   disk, config, max_queries, provider_arg, mode, pc, cand, provider,
                   queries, results, files, diag, env>>

\* a caller changes a list it got from list_providers: pop(0), append, clear
CallerModifiesList ==
    /\ mode = "provider"
    /\ Len(calls) < MaxProviderCalls
    /\ \E i \in DOMAIN listed :
         /\ listed[i] = PROVIDERS
         /\ \E l \in { Tail(listed[i]), Append(listed[i], "custom"), <<>> } :
               /\ listed' = [listed EXCEPT ![i] = l]
               /\ calls' = Append(calls, Event("modify", i, l))
    /\ UNCHANGED <<db, dblog, args, conn, connections, raised,
                   disk, config, max_queries, provider_arg, mode, pc, cand, provider,
                   queries, results, files, diag, env>>

\* provider.get_required_env_vars()
ProviderEnvVars ==
    /\ mode = "provider"
    /\ pc = "ready"
    /\ Len(calls) < MaxProviderCalls
    /\ calls' = Append(calls, Event("env_vars", provider, get_required_env_vars(provider)))
    /\ UNCHANGED <<db, dblog, args, conn, connections, raised,
                   disk, listed, config, max_queries, provider_arg, mode, pc, cand,
                   provider, queries, results, files, diag, env>>

\* provider.get_provider_name()
ProviderName ==
    /\ mode = "provider"
    /\ pc = "ready"
    /\ Len(calls) < MaxProviderCalls
    /\ calls' = Append(calls, Event("name", provider, get_provider_name(provider)))
    /\ UNCHANGED <<db, dblog, args, conn, connections, raised,
                   disk, listed, config, max_queries, provider_arg, mode, pc, cand,
                   provider, queries, results, files, diag, env>>

NextProvider ==
    \/ ProviderCreate
    \/ ProviderValidate
    \/ ProviderSearch
    \/ ProviderList
    \/ CallerModifiesList
    \/ ProviderEnvVars
    \/ ProviderName

SpecProvider == InitProvider /\ [][NextProvider]_vars

---------------------------------------------------------------------------
(* Properties of the query builder *)

Min(a, b) == IF a < b THEN a ELSE b
Max(a, b) == IF a > b THEN a ELSE b

CountPriority(qs, p) == Cardinality({ i \in DOMAIN qs : qs[i].priority = p })
CountBelow(qs, p) == Cardinality({ i \in DOMAIN qs : qs[i].priority < p })
PrioritiesOf(qs) == { qs[i].priority : i \in DOMAIN qs }
OfPriority(qs, p) == LET Test(q) == q.priority = p IN SelectSeq(qs, Test)
IsPrefix(s, t) == Len(s) <= Len(t) /\ s = SubSeq(t, 1, Len(s))

Built == mode = "build" /\ pc = "built"

\* C9: when the builder can produce M queries and the requested maximum K
\* satisfies 0 <= K <= M, exactly K queries are returned and they are the K
\* entries of lowest priority value: of each priority p the result holds as
\* many entries as fit in K after all entries of lower value were taken, and
\* every returned entry is an entry of the full list.
C9_Truncation ==
    Built =>
        LET full == GeneratedQueries(config)
            K == max_queries
        IN (0 <= K /\ K <= Len(full)) =>
             /\ Len(queries) = K
             /\ \A i \in DOMAIN queries : \E j \in DOMAIN full : queries[i] = full[j]
             /\ \A p \in PrioritiesOf(full) :
                   CountPriority(queries, p)
                     = Max(0, Min(CountPriority(full, p), K - CountBelow(full, p)))
             /\ \A i \in DOMAIN queries : \A p \in PrioritiesOf(full) :
                   (CountPriority(queries, p) < CountPriority(full, p))
                       => queries[i].priority <= p

\* a cut that drops a query of strictly lower priority value than one it keeps
C9_Witness ==
    /\ Built
    /\ max_queries >= 1
    /\ max_queries < Len(GeneratedQueries(config))
    /\ Len(queries) = max_queries
    /\ \E i \in DOMAIN GeneratedQueries(config) :
          /\ i <= max_queries
          /\ GeneratedQueries(config)[i].priority > queries[Len(queries)].priority

\* C10: the returned list is non-decreasing in priority and the sort is
\* stable: the returned queries of one priority are, in the same order, the
\* first generated queries of that priority.
C10_SortedStable ==
    Built =>
        /\ \A i, j \in DOMAIN queries :
              i < j => queries[i].priority <= queries[j].priority
        /\ \A p \in PrioritiesOf(queries) :
              IsPrefix(OfPriority(queries, p), OfPriority(GeneratedQueries(config), p))

\* a result in which the sort moved a region forward, holding two different
\* queries of equal priority and a query of another priority
C10_Witness ==
    /\ Built
    /\ \E i, j \in DOMAIN queries :
          /\ i < j
          /\ queries[i].priority = queries[j].priority
          /\ queries[i] # queries[j]
    /\ \E i \in DOMAIN queries : queries[i].priority > queries[1].priority
    /\ queries # PySliceTo(GeneratedQueries(config), max_queries)

---------------------------------------------------------------------------
(* Properties of the orchestrator and the executor *)

Daily == mode = "daily"
Candidates == 0..Len(FallbackProviders)

CreatedOk(i) ==
    \E k \in DOMAIN calls : calls[k].op = "create" /\ calls[k].inst = i /\ calls[k].ret
CreateFailed(i) ==
    \E k \in DOMAIN calls : calls[k].op = "create" /\ calls[k].inst = i /\ ~calls[k].ret
ValidatedTrue(i) ==
    \E k \in DOMAIN calls : calls[k].op = "validate" /\ calls[k].inst = i /\ calls[k].ret
ValidatedFalse(i) ==
    \E k \in DOMAIN calls : calls[k].op = "validate" /\ calls[k].inst = i /\ ~calls[k].ret
Searched(i) ==
    \E k \in DOMAIN calls : calls[k].op = "search" /\ calls[k].inst = i

\* the candidate was turned down in the selection
Rejected(i) == CreateFailed(i) \/ ValidatedFalse(i)
\* the candidate was constructed and its validate_config returned true
Qualified(i) == CreatedOk(i) /\ ValidatedTrue(i)

\* the search calls made on candidate i, in the order they were made
SearchesOf(i) ==
    LET Test(ev) == ev.op = "search" /\ ev.inst = i IN SelectSeq(calls, Test)

\* the candidates are constructed in the order primary, fallbacks as listed,
\* each under its configured name
TriedInOrder ==
    LET Test(ev) == ev.op = "create"
        created == SelectSeq(calls, Test)
    IN \A k \in DOMAIN created :
          /\ created[k].inst = k - 1
          /\ created[k].inst \in Candidates
          /\ created[k].arg = CandidateName(k - 1)

\* C1: in run_daily_searches the candidates are tried in the order primary,
\* fallbacks as listed; search is never called on a candidate that failed
\* construction or validation; and the provider that is sent the batch is the
\* first candidate in that order that constructed and validated, so every
\* candidate before it was rejected.
C1_FirstQualifiedRuns ==
    Daily =>
        /\ TriedInOrder
        /\ \A i \in Candidates : Searched(i) => Qualified(i) /\ ~Rejected(i)
        /\ \A i \in Candidates :
              (Searched(i) \/ (pc = "done" /\ cand = i)) =>
                  \A j \in 0..(i - 1) : Rejected(j) /\ ~Qualified(j)

\* C2: once a candidate has validated, it is the only provider used for the
\* rest of the run: every later call is a search on that same candidate (no
\* later construction, no second validation, no query to another provider).
C2_OneProviderPerRun ==
    Daily =>
        \A k \in DOMAIN calls :
            (calls[k].op = "validate" /\ calls[k].ret) =>
                \A m \in DOMAIN calls :
                    m > k => calls[m].op = "search" /\ calls[m].inst = calls[k].inst

\* every candidate of the run was turned down
AllRejected == \A i \in Candidates : Rejected(i)

\* C3: when every candidate fails construction or validation, the run is at
\* (or one step before) the fatal exit, no search call was made and no
\* ResultBatch was written.
C3_Exhaustion ==
    (Daily /\ AllRejected) =>
        /\ pc = "exit1" \/ (pc = "fallback" /\ cand > Len(FallbackProviders))
        /\ \A k \in DOMAIN calls : calls[k].op # "search"
        /\ files = <<>>

\* the fatal exit after a primary and two fallbacks were turned down, one by
\* its construction and one by validate_config
C3_Witness ==
    /\ Daily
    /\ pc = "exit1"
    /\ AllRejected
    /\ Len(FallbackProviders) = 2
    /\ \E i \in Candidates : CreateFailed(i)
    /\ \E i \in Candidates : i > 0 /\ ValidatedFalse(i)

\* C4: the fatal exit is reached only when every candidate was rejected by
\* construction or validation, and a finished run in which a provider
\* validated has ended normally with a ResultBatch written.
C4_FatalOnlyWhenExhausted ==
    Daily =>
        /\ pc = "exit1" => AllRejected
        /\ (pc \in {"done", "exit1"} /\ \E i \in Candidates : Qualified(i)) =>
              pc = "done" /\ Len(files) = 1

\* C5: every search call on a provider instance comes after a validate_config
\* call on the same instance that returned true (daily and single runs), and a
\* single run whose validate_config returned false has exited with no search.
C5_ValidatedBeforeSearch ==
    (mode \in {"daily", "single"}) =>
        /\ \A k \in DOMAIN calls :
              calls[k].op = "search" =>
                  \E j \in 1..(k - 1) :
                      /\ calls[j].op = "validate"
                      /\ calls[j].inst = calls[k].inst
                      /\ calls[j].ret
        /\ (mode = "single" /\ ValidatedFalse(0)) =>
              pc = "exit1" /\ ~Searched(0)

\* a daily run that sent two queries to its second fallback after the primary
\* failed validation and the first fallback failed construction
C5_Witness ==
    /\ Daily
    /\ ValidatedFalse(0)
    /\ CreateFailed(1)
    /\ Len(SearchesOf(2)) = 2

\* the queries the executor of this run works through
RunQueries == build_search_queries(config, max_queries)

\* C7: while execute_searches runs, the search calls made on its provider are
\* the queries done so far, once each and in list order, with one result per
\* call; a written batch holds one result per query, in query order, also
\* behind a failed result.
C7_OneResultPerQuery ==
    Daily =>
        LET sent == SearchesOf(cand)
            run == RunQueries
        IN /\ pc = "search" =>
                 /\ Len(sent) = Len(results)
                 /\ Len(results) <= Len(queries)
                 /\ \A i \in DOMAIN results :
                       /\ sent[i].arg = queries[i]
                       /\ results[i].query_info = queries[i]
           /\ \A f \in DOMAIN files :
                 /\ Len(files[f].results) = files[f].queries_run
                 /\ files[f].queries_run = Len(run)
                 /\ \A i \in DOMAIN run :
                       files[f].results[i].query_info = run[i]
           /\ pc = "done" =>
                 /\ Len(sent) = Len(run)
                 /\ \A i \in DOMAIN run : sent[i].arg = run[i]

\* a written batch of two results whose first search failed
C7_Witness ==
    /\ Daily
    /\ pc = "done"
    /\ Len(files) = 1
    /\ files[1].queries_run = 2
    /\ ~files[1].results[1].success
    /\ files[1].results[2].success

\* C8: in every written ResultBatch, successful is the number of results
\* whose success is true, and lies between 0 and queries_run.
C8_SuccessCount ==
    \A f \in DOMAIN files :
        /\ files[f].successful
             = Cardinality({ i \in DOMAIN files[f].results : files[f].results[i].success })
        /\ 0 <= files[f].successful
        /\ files[f].successful <= files[f].queries_run

\* a written batch with one successful and one failed result
C8_Witness ==
    /\ Len(files) = 1
    /\ files[1].queries_run = 2
    /\ files[1].successful = 1

---------------------------------------------------------------------------
(* Properties of the providers *)

\* the provider had no usable client or SDK for the call
ClientUnavailable(self, e) ==
    CASE self.class = "ClaudeProvider"     -> self.client = PyNone
      [] self.class = "OpenRouterProvider" -> self.client = PyNone
      [] self.class = "OllamaProvider"     -> "ollama" \notin e.sdk
      [] self.class = "MCPProvider"        ->
            \/ "mcp" \notin e.sdk
            \/ (IF self.llm_type = "claude" THEN "anthropic" ELSE "openai") \notin e.sdk

\* the backend answered with a response the provider cannot read
MalformedResponse(self, backend) ==
    /\ backend.kind = "response"
    /\ \/ "content" \in DOMAIN backend /\ backend.content.py # "list"
       \/ "choices" \in DOMAIN backend /\ backend.choices = <<>>
       \/ /\ "response" \in DOMAIN backend
          /\ "message" \in DOMAIN backend.response
          /\ "content" \in DOMAIN backend.response.message
          /\ backend.response.message.content = PyNone

BackendFailure(self, backend, e) ==
    \/ ClientUnavailable(self, e)
    \/ backend.kind = "raise"
    \/ MalformedResponse(self, backend)

\* C6: for each of the four providers, every backend failure during search
\* (unavailable client, raised error, malformed response, for mcp a failed
\* web-search step or summarizing call) yields success = false, with the
\* error message of the exception when it has one.
C6_FailureIsFailedResult ==
    (mode = "provider") =>
        \A k \in DOMAIN calls :
            (calls[k].op = "search"
               /\ BackendFailure(calls[k].arg.self, calls[k].arg.backend, env)) =>
                /\ ~calls[k].ret.success
                /\ (~ClientUnavailable(calls[k].arg.self, env)
                      /\ calls[k].arg.backend.kind = "raise"
                      /\ calls[k].arg.backend.msg # "") =>
                        /\ "error" \in DOMAIN calls[k].ret
                        /\ calls[k].ret.error = PyStr(calls[k].arg.backend.msg)

---------------------------------------------------------------------------
(* Properties of the query builder: the generated list *)

RegionsOf(cfg) == Get(cfg, "regions", <<>>)
TemplatesOf(cfg) == Get(cfg, "search_templates", EmptyDict)
RegionName(item) == Get(item.data, "name", item.key)
RegionPriority(item) == Get(item.data, "priority", DefaultPriority)
RegionCities(item) == Get(item.data, "cities", <<>>)

\* the categories that have a non-empty template list, in the fixed order
ActiveTypes(cfg) ==
    LET Test(t) == Get(TemplatesOf(cfg), t, <<>>) # <<>>
    IN SelectSeq(TemplateTypes, Test)

\* min(3, number of cities) of a region
CappedCities(item) == Min(CitiesPerRegion, Len(RegionCities(item)))

\* the sum of CappedCities over the first n regions
RECURSIVE SumCapped(_, _)
SumCapped(regions, n) ==
    IF n = 0 THEN 0 ELSE SumCapped(regions, n - 1) + CappedCities(regions[n])

\* C11: before truncation there is exactly one query for each (region, city,
\* category) with the city among the first 3 of the region and the category
\* one of new_venues, booking_opportunities with a non-empty template list;
\* it is built from the first template of the category and carries the
\* region's name and priority; no city behind the third appears; the total is
\* at most 2 x the sum over the regions of min(3, number of cities).
C11_OnePerRegionCityCategory ==
    Built =>
        LET full == GeneratedQueries(config)
            regions == RegionsOf(config)
            types == ActiveTypes(config)
            NT == Len(types)
        IN /\ Len(full) = NT * SumCapped(regions, Len(regions))
           /\ Len(full) <= 2 * SumCapped(regions, Len(regions))
           /\ \A r \in DOMAIN regions :
                 \A c \in 1..CappedCities(regions[r]) :
                    \A t \in DOMAIN types :
                       full[NT * SumCapped(regions, r - 1) + NT * (c - 1) + t]
                         = [query    |-> Format(TemplatesOf(config)[types[t]][1],
                                                RegionCities(regions[r])[c],
                                                RegionName(regions[r])),
                            type     |-> types[t],
                            region   |-> RegionName(regions[r]),
                            city     |-> RegionCities(regions[r])[c],
                            priority |-> RegionPriority(regions[r])]
           /\ \A r \in DOMAIN regions :
                 \A c \in (CitiesPerRegion + 1)..Len(RegionCities(regions[r])) :
                    \A i \in DOMAIN full :
                       full[i].city # RegionCities(regions[r])[c]

\* one region with 4 cities and both templates, maximum 10: exactly 6 queries
\* are returned, none of them for the 4th city
C11_Witness ==
    /\ Built
    /\ max_queries = DefaultLimit
    /\ Len(RegionsOf(config)) = 1
    /\ Len(RegionCities(RegionsOf(config)[1])) = 4
    /\ Len(ActiveTypes(config)) = 2
    /\ Len(GeneratedQueries(config)) = 6
    /\ Len(queries) = 6
    /\ \A i \in DOMAIN queries : queries[i].city # "Troy"

\* the region has a city and some category has a template: it generates queries
Contributes(cfg, item) == CappedCities(item) >= 1 /\ Len(ActiveTypes(cfg)) >= 1

\* the number of generated queries the stable sort puts in front of the first
\* query of region r: those of the regions of lower priority value and those
\* of the regions of equal priority that come earlier in the configuration
Preceding(cfg, r) ==
    LET regions == RegionsOf(cfg)
        Before(k) == \/ RegionPriority(regions[k]) < RegionPriority(regions[r])
                     \/ /\ RegionPriority(regions[k]) = RegionPriority(regions[r])
                        /\ k < r
        RECURSIVE Sum(_)
        Sum(n) == IF n = 0 THEN 0
                  ELSE Sum(n - 1) + (IF Before(n) THEN CappedCities(regions[n]) ELSE 0)
    IN Len(ActiveTypes(cfg)) * Sum(Len(regions))

\* the first query a region generates
FirstQueryOf(cfg, item) ==
    LET t == ActiveTypes(cfg)[1]
    IN [query    |-> Format(TemplatesOf(cfg)[t][1], RegionCities(item)[1], RegionName(item)),
        type     |-> t,
        region   |-> RegionName(item),
        city     |-> RegionCities(item)[1],
        priority |-> RegionPriority(item)]

\* C12 as stated: for any maximum of at least 1, every region that has a city
\* (given a non-empty template list) has a query in the returned list.
C12_EveryRegionRepresented ==
    (Built /\ max_queries >= 1) =>
        \A r \in DOMAIN RegionsOf(config) :
            Contributes(config, RegionsOf(config)[r]) =>
                \E i \in DOMAIN queries : queries[i].region = RegionName(RegionsOf(config)[r])

\* C12 amended: a region that generates queries is represented in the list
\* returned for a maximum K >= 0 when fewer than K generated queries come
\* before its first query in priority order (lower priority value, or equal
\* priority and earlier in the configuration), and then its first query
\* stands at that position; otherwise the cut list ends before it.  With K at
\* least the number of generated queries every such region is represented.
C12_RepresentedWithinMaximum ==
    (Built /\ max_queries >= 0) =>
        /\ Len(queries) = Min(max_queries, Len(GeneratedQueries(config)))
        /\ \A r \in DOMAIN RegionsOf(config) :
              Contributes(config, RegionsOf(config)[r]) =>
                 /\ Preceding(config, r) < Len(GeneratedQueries(config))
                 /\ IF Preceding(config, r) < max_queries
                    THEN queries[Preceding(config, r) + 1]
                           = FirstQueryOf(config, RegionsOf(config)[r])
                    ELSE Len(queries) <= Preceding(config, r)

\* a cut list that holds the second region, of lower priority value, and has
\* no query of the first region
C12_Witness ==
    /\ Built
    /\ max_queries >= 1
    /\ Len(RegionsOf(config)) = 2
    /\ Contributes(config, RegionsOf(config)[1])
    /\ Contributes(config, RegionsOf(config)[2])
    /\ RegionPriority(RegionsOf(config)[2]) < RegionPriority(RegionsOf(config)[1])
    /\ queries # <<>>
    /\ queries[1] = FirstQueryOf(config, RegionsOf(config)[2])
    /\ \A i \in DOMAIN queries : queries[i].priority # RegionPriority(RegionsOf(config)[1])

---------------------------------------------------------------------------
(* Properties of the registry *)

\* the registered names and their classes, as the registry lists them
RegisteredClass(name) ==
    CASE name = "claude"     -> "ClaudeProvider"
      [] name = "openrouter" -> "OpenRouterProvider"
      [] name = "ollama"     -> "OllamaProvider"
      [] name = "mcp"        -> "MCPProvider"
      [] OTHER               -> "none"

\* the model setting of the provider's section, when given, is a string
ModelIsStr(cfg, name) ==
    IsStr(Get(Get(ProviderConfig(cfg), name, EmptyDict), "model", PyStr(<<>>)))

ResultFromCurrentProvider ==
    /\ Len(results') = Len(results) + 1
    /\ SubSeq(results', 1, Len(results)) = results
    /\ Len(calls') = Len(calls) + 1
    /\ calls'[Len(calls')].op = "search"
    /\ calls'[Len(calls')].inst = cand
    /\ cand' = cand
    /\ get_provider_name(provider') = get_provider_name(provider)

\* the step writes one batch: the results gathered from the current
\* candidate's instance, under that instance's name
BatchFromCurrentProvider ==
    /\ Len(files') = Len(files) + 1
    /\ SubSeq(files', 1, Len(files)) = files
    /\ files'[Len(files')].results = results
    /\ files'[Len(files')].provider = get_provider_name(provider)
    /\ provider' = provider
    /\ cand' = cand

\* C14: the instance created for a registered name n reports
\* get_provider_name() = n; every result of execute_searches' list comes from
\* a search call on its provider instance, and the batch written holds that
\* list under the name of that instance.
C14_ProviderName ==
    /\ [](Daily =>
            /\ pc \in {"validate", "execute", "search", "done"} =>
                  /\ Registered(LowerStrip(CandidateName(cand)))
                  /\ get_provider_name(provider) = LowerStrip(CandidateName(cand))
            /\ pc = "search" => Len(results) = Len(SearchesOf(cand))
            /\ \A f \in DOMAIN files :
                  files[f].provider = get_provider_name(provider))
    /\ [][Daily =>
            /\ (results' # results /\ results' # <<>>) => ResultFromCurrentProvider
            /\ (files' # files) => BatchFromCurrentProvider]_vars

\* a batch of two results written by the first fallback, openrouter, after
\* another primary was turned down
C14_Witness ==
    /\ Daily
    /\ pc = "done"
    /\ cand = 1
    /\ LowerStrip(PrimaryName) # "openrouter"
    /\ Len(files) = 1
    /\ files[1].provider = "openrouter"
    /\ Len(files[1].results) = 2
    /\ Len(SearchesOf(1)) = 2

\* the list events of the history
ListCalls == LET Test(ev) == ev.op = "list" IN SelectSeq(calls, Test)

\* C15: every call of list_providers returns the same sequence, whatever
\* create_provider and list_providers calls came before and whatever a caller
\* did to a list returned earlier; its names are exactly the names
\* create_provider accepts (after lower-casing and trimming).
C15_ListProvidersStable ==
    (mode = "provider") =>
        /\ \A i, j \in DOMAIN ListCalls : ListCalls[i].ret = ListCalls[j].ret
        /\ \A i \in DOMAIN ListCalls :
              LET names == { ListCalls[i].ret[k] : k \in DOMAIN ListCalls[i].ret }
              IN /\ Len(ListCalls[i].ret) = Cardinality(names)
                 /\ \A n \in RunNames : n \in names <=> RegisteredClass(n) # "none"
                 /\ pc = "ready" => LowerStrip(provider_arg.v) \in names
                 /\ (pc = "raised" /\ diag[1].role = "ValueError") =>
                        LowerStrip(provider_arg.v) \notin names

\* list_providers was called, the caller changed the list it got, and
\* list_providers was called again
C15_Witness ==
    /\ mode = "provider"
    /\ Len(calls) = 3
    /\ calls[1].op = "list"
    /\ calls[2].op = "modify"
    /\ calls[3].op = "list"
    /\ listed[1] # listed[2]
    /\ pc = "ready"

---------------------------------------------------------------------------
(* Properties of the results directory *)

\* C16: every batch a run has written is still the document of its file, and
\* every run that wrote a batch has a file of its own, also when two runs fall
\* into the same clock minute.
C16_FilesNeverOverwritten ==
    Daily =>
        /\ \A f \in DOMAIN files :
              /\ ResultsFileName(files[f].date) \in DOMAIN disk
              /\ disk[ResultsFileName(files[f].date)] = files[f]
        /\ Cardinality(DOMAIN disk) = Len(files)

---------------------------------------------------------------------------
(* Properties of the diagnostics *)

\* C17: at the fatal exit of run_daily_searches the orchestrator has printed,
\* for every candidate it attempted (the primary and each fallback), a
\* diagnostic of its own that names the candidate and gives the reason of its
\* rejection: for the candidates that raised and for the fallbacks whose
\* validate_config returned false alike.
C17_EveryRejectionReported ==
    (Daily /\ pc = "exit1") =>
        \E f \in [Candidates -> DOMAIN diag] :
            /\ \A i, j \in Candidates : i # j => f[i] # f[j]
            /\ \A i \in Candidates :
                  /\ diag[f[i]].name = CandidateName(i)
                  /\ diag[f[i]].reason # ""

---------------------------------------------------------------------------
(* Properties of the Ollama provider *)

\* the texts the model's Ollama backends answer with
OllamaContents == {"", "venues"}

\* C18: every result of OllamaProvider.search with success = true has a text
\* that is the model's response followed by the knowledge-only note, also
\* when the response is empty or has no message.
C18_OllamaAnnotated ==
    (mode = "provider") =>
        \A k \in DOMAIN calls :
            (calls[k].op = "search"
               /\ calls[k].arg.self.class = "OllamaProvider"
               /\ calls[k].ret.success) =>
                \E c \in OllamaContents :
                    calls[k].ret.text = PyStr(c \o "\n\n" \o OllamaNote)

\* a successful Ollama result for an empty response: the text is the note alone
C18_Witness ==
    /\ mode = "provider"
    /\ \E k \in DOMAIN calls :
          /\ calls[k].op = "search"
          /\ calls[k].arg.self.class = "OllamaProvider"
          /\ calls[k].arg.backend.kind = "response"
          /\ calls[k].arg.backend.response = ("message" :> ("content" :> PyStr("")))
          /\ calls[k].ret.success
          /\ calls[k].ret.text = PyStr("\n\n" \o OllamaNote)

---------------------------------------------------------------------------
(* Properties of the provider selection *)

\* an override was given: --provider with a name
OverrideGiven == provider_arg # PyNone /\ provider_arg.v # ""

\* the override, else the configured default, else "claude"
ExpectedPrimary ==
    IF OverrideGiven THEN provider_arg.v
    ELSE IF "search_provider" \in DOMAIN config
            /\ "default_provider" \in DOMAIN config["search_provider"]
         THEN config["search_provider"]["default_provider"]
         ELSE "claude"

\* C19: in run_daily_searches and in single_search the first provider asked
\* of the registry is the caller's override when one is given, otherwise
\* search_provider.default_provider, otherwise "claude"; an override wins
\* over a configured default.
C19_PrimaryResolution ==
    (mode \in {"daily", "single"} /\ calls # <<>>) =>
        /\ calls[1].op = "create"
        /\ calls[1].inst = 0
        /\ calls[1].arg = ExpectedPrimary
        /\ (calls[1].ret /\ cand = 0 /\ pc # "start") =>
              provider.class = RegisteredClass(LowerStrip(ExpectedPrimary))
        /\ (OverrideGiven /\ calls[1].ret) =>
              RegisteredClass(LowerStrip(provider_arg.v)) # "none"

\* a daily run with the override MCP and another configured default: the
\* primary is an MCPProvider
C19_Witness ==
    /\ mode = "daily"
    /\ provider_arg = PyStr("MCP")
    /\ "search_provider" \in DOMAIN config
    /\ "default_provider" \in DOMAIN config["search_provider"]
    /\ config["search_provider"]["default_provider"] = "openrouter"
    /\ cand = 0
    /\ pc = "validate"
    /\ provider.class = "MCPProvider"

---------------------------------------------------------------------------
(* Properties of the configuration defaults *)

\* the model a provider class uses when its section does not name one
DefaultModel(name) ==
    CASE name = "claude"     -> PyStr(<<"claude-sonnet-4-20250514">>)
      [] name = "openrouter" -> PyStr(<<"openai/gpt-4o", ":online">>)
      [] name = "ollama"     -> PyStr(<<"llama3.1:latest">>)
      [] name = "mcp"        -> PyStr(<<"claude", "-sonnet-4-20250514">>)

\* the configuration has no section [search_provider.<name>]
SectionMissing(name) ==
    \/ "search_provider" \notin DOMAIN config
    \/ name \notin DOMAIN config["search_provider"]

\* C20: a missing section never raises.  Without regions or without
\* search_templates the executor's query list is empty and the run writes a
\* batch of no results; without fallback_providers no fallback is attempted;
\* a provider whose section is missing is constructed with its defaults.
C20_MissingSectionsDefault ==
    (mode \in {"daily", "single"}) =>
        /\ ("regions" \notin DOMAIN config \/ "search_templates" \notin DOMAIN config) =>
              /\ queries = <<>>
              /\ (Daily /\ pc = "search") => results = <<>>
              /\ \A f \in DOMAIN files : files[f].queries_run = 0 /\ files[f].results = <<>>
        /\ ("search_provider" \notin DOMAIN config
               \/ "fallback_providers" \notin DOMAIN config["search_provider"]) =>
              /\ \A k \in DOMAIN calls : calls[k].inst = 0
              /\ cand <= 1
              /\ (Daily /\ cand = 1) => pc \in {"fallback", "exit1"}
        /\ \A k \in DOMAIN calls :
              (calls[k].op = "create"
                 /\ RegisteredClass(LowerStrip(calls[k].arg)) # "none"
                 /\ SectionMissing(LowerStrip(calls[k].arg))) =>
                  /\ calls[k].ret
                  /\ (k = Len(calls)) =>
                        /\ provider.class = RegisteredClass(LowerStrip(calls[k].arg))
                        /\ provider.model = DefaultModel(LowerStrip(calls[k].arg))

\* a daily run on an empty configuration: the default provider claude with
\* its default model, no query, a batch of no results written
C20_Witness ==
    /\ Daily
    /\ config = EmptyDict
    /\ pc = "done"
    /\ provider.class = "ClaudeProvider"
    /\ provider.model = PyStr(<<"claude-sonnet-4-20250514">>)
    /\ Len(files) = 1
    /\ files[1].queries_run = 0

---------------------------------------------------------------------------
(* Properties of the providers' getters *)

Getters == {"env_vars", "name"}

\* the values one getter returned, in the order of the calls
ReturnsOf(op) == LET Test(ev) == ev.op = op IN SelectSeq(calls, Test)

\* C21: on one provider instance every call of get_required_env_vars returns
\* the same list and every call of get_provider_name the same name, whatever
\* validate_config and search calls come in between, and a getter leaves the
\* instance as it found it.
C21_GettersIdempotent ==
    /\ [](mode = "provider" =>
            \A op \in Getters :
                \A i, j \in DOMAIN ReturnsOf(op) :
                    ReturnsOf(op)[i].ret = ReturnsOf(op)[j].ret)
    /\ [][(mode = "provider"
             /\ Len(calls') = Len(calls) + 1
             /\ calls'[Len(calls')].op \in Getters)
            => /\ provider' = provider
               /\ calls'[Len(calls')].arg = provider]_vars

\* get_required_env_vars was called on an MCPProvider before and after a
\* search that initialised its LLM client, and returned a key both times
C21_Witness ==
    /\ mode = "provider"
    /\ Len(calls) = 3
    /\ calls[1].op = "env_vars"
    /\ calls[2].op = "search"
    /\ calls[3].op = "env_vars"
    /\ calls[1].arg.class = "MCPProvider"
    /\ calls[1].arg.llm_client = PyNone
    /\ calls[3].arg.llm_client # PyNone
    /\ calls[3].ret # <<>>
    /\ calls[3].ret = calls[1].ret

---------------------------------------------------------------------------
(* Properties of the run as a whole *)

\* the candidates constructed so far
Attempts == LET Test(ev) == ev.op = "create" IN Len(SelectSeq(calls, Test))

Terminated == pc \in {"done", "exit1"}

\* C22: run_daily_searches terminates (every call returning); it attempts at
\* most 1 + (length of the fallback list) candidates and ends either with
\* one ResultBatch written by one provider or in the fatal failure with none,
\* never both and never neither.
C22_Terminates ==
    /\ [](Daily =>
            /\ Attempts <= 1 + Len(FallbackProviders)
            /\ cand <= 1 + Len(FallbackProviders)
            /\ pc = "done" => (Len(files) = 1 /\ files[1].provider = get_provider_name(provider))
            /\ pc = "exit1" => files = <<>>
            /\ ~Terminated => files = <<>>)
    /\ <>(Daily => Terminated)

\* a run that ended with the batch of its second fallback, the third
\* candidate attempted
C22_Witness ==
    /\ Daily
    /\ pc = "done"
    /\ Len(FallbackProviders) = 2
    /\ Attempts = 3
    /\ cand = 2
    /\ Len(files) = 1

\* C23: for every integer maximum, zero and negative values included, the
\* number of queries returned does not exceed the maximum, and no query is
\* returned when the maximum is zero or negative.
C23_NeverExceedsMaximum ==
    Built => Len(queries) <= Max(0, max_queries)

---------------------------------------------------------------------------
(* Properties of the standardized result *)

\* C24: every standardized result has the keys query_info, text, success
\* and timestamp, and it has the key error exactly when success is false:
\* a failed result carries an error message, also when the caught exception
\* has an empty message, and a successful result carries none.
C24_ErrorIffFailed ==
    (mode = "provider") =>
        \A k \in DOMAIN calls :
            calls[k].op = "search" =>
                /\ {"query_info", "text", "success", "timestamp"} \subseteq DOMAIN calls[k].ret
                /\ ("error" \in DOMAIN calls[k].ret) <=> ~calls[k].ret.success

---------------------------------------------------------------------------
(* Properties of the port from claude_search.py *)

\* C25: build_search_queries of unified_search.py and build_search_queries
\* of claude_search.py return, for every configuration and every limit, the
\* same list of queries in the same order.
C25_BuildersAgree ==
    Built => queries = claude_search_build_search_queries(config, max_queries)

\* a call in which both builders generate for two categories, reorder by
\* priority and cut the list
C25_Witness ==
    /\ Built
    /\ Len(claude_search_build_search_queries(config, max_queries)) = max_queries
    /\ max_queries >= 2
    /\ Len(GeneratedQueries(config)) > max_queries
    /\ queries # PySliceTo(GeneratedQueries(config), max_queries)
    /\ \E i, j \in DOMAIN queries : queries[i].type # queries[j].type

\* C26: ClaudeProvider.search with the default configuration and
\* search_with_claude return, for the same backend behaviour (the same
\* response blocks or the same raised exception) and every query, results
\* with the same keys and the same text, success and error values.
C26_SearchPreserved ==
    (mode = "provider") =>
        \A k \in DOMAIN calls :
            (calls[k].op = "search"
               /\ calls[k].arg.self.class = "ClaudeProvider"
               /\ calls[k].arg.self.client # PyNone) =>
                LET new == calls[k].ret
                    old == search_with_claude(new.query_info, calls[k].arg.backend)
                IN /\ DOMAIN new = DOMAIN old
                   /\ new.text = old.text
                   /\ new.success = old.success
                   /\ ("error" \in DOMAIN old /\ "error" \in DOMAIN new) => new.error = old.error

---------------------------------------------------------------------------
(* Properties of the selection: repeated attempts *)

\* the calls of one kind made so far
CallsOf(op) == LET Test(ev) == ev.op = op IN SelectSeq(calls, Test)

\* the name an event of the run is about
NameOf(ev) == CandidateName(ev.inst)

\* how often name n occurs among the primary and the fallback list
Occurrences(n) == Cardinality({ i \in Candidates : CandidateName(i) = n })

\* C27 as stated: within one run each provider name is constructed and
\* validated at most once; a name that was attempted is never attempted again
\* later in the run, also when the fallback list repeats a name or contains
\* the primary's name.
C27_NameAttemptedOnce ==
    Daily =>
        \A op \in {"create", "validate"} :
            \A k, l \in DOMAIN CallsOf(op) :
                k # l => NameOf(CallsOf(op)[k]) # NameOf(CallsOf(op)[l])

\* C27, amended: within one run each candidate (the primary and each entry of
\* the fallback list) is constructed and validated at most once and the run
\* never returns to an earlier candidate, so a name is attempted at most as
\* often as it occurs among the primary and the fallback list: a provider
\* that was rejected or failed is attempted again only when the fallback list
\* repeats its name or contains the primary's name.
C27_CandidateAttemptedOnce ==
    Daily =>
        /\ \A op \in {"create", "validate"} :
              /\ \A k, l \in DOMAIN CallsOf(op) :
                    k # l => CallsOf(op)[k].inst # CallsOf(op)[l].inst
              /\ \A k \in DOMAIN CallsOf(op) :
                    Cardinality({ l \in DOMAIN CallsOf(op) :
                                    NameOf(CallsOf(op)[l]) = NameOf(CallsOf(op)[k]) })
                      <= Occurrences(NameOf(CallsOf(op)[k]))
        /\ \A k, l \in DOMAIN calls : k < l => calls[k].inst <= calls[l].inst

\* the fallback list names the primary, which was rejected by validate_config
\* and constructed and validated a second time as the first fallback
C27_Witness ==
    /\ Daily
    /\ Len(FallbackProviders) >= 1
    /\ CandidateName(1) = CandidateName(0)
    /\ ValidatedFalse(0)
    /\ ValidatedFalse(1)
    /\ Len(CallsOf("create")) = 2
    /\ Len(CallsOf("validate")) = 2

---------------------------------------------------------------------------
(* venue_scout.py and search_runner.py: the venue database *)

\* The database is the record of its two tables.  venues maps the primary
\* key id to its row; excluded_venues is the set of its rows, of which no
\* two have the same (name, city) (UNIQUE(name, city)).

VenueNames == {"The Falcon", " the falcon", "Blue Note"}
VenueCities == {"Troy"}

\* str.lower().strip(), on the strings the model uses
VenueLowerStrip(str) ==
    CASE str = "The Falcon"  -> "the falcon"
      [] str = " the falcon" -> "the falcon"
      [] str = "Blue Note"   -> "blue note"
      [] str = "Troy"        -> "troy"
      [] OTHER               -> str

\* the id is the md5 digest of the key, taken here as the key itself (two
\* keys get the same id exactly when they are equal)
generate_venue_id(name, city) ==
    VenueLowerStrip(name) \o ":" \o VenueLowerStrip(city)

\* SELECT 1 FROM excluded_venues WHERE name = ? AND city = ?
ExcludedRows(d, name, city) ==
    { r \in d.excluded_venues : r.name = name /\ r.city = city }

\* INSERT [OR IGNORE] INTO excluded_venues: a second row of the same
\* (name, city) is refused
InsertExcluded(d, name, city, reason) ==
    IF ExcludedRows(d, name, city) # {} THEN d
    ELSE [d EXCEPT !.excluded_venues =
                      @ \cup {[name |-> name, city |-> city, reason |-> reason]}]

\* UPDATE venues SET status = ? WHERE id = ?
SetStatus(d, id, status) ==
    IF id \in DOMAIN d.venues
    THEN [d EXCEPT !.venues[id].status = status]
    ELSE d

\* INSERT INTO venues (...): status takes its default 'active'
InsertVenue(d, id, name, city, source) ==
    [d EXCEPT !.venues = @ @@ (id :> [name      |-> name,
                                      city      |-> city,
                                      status    |-> "active",
                                      source    |-> source,
                                      last_seen |-> "today"])]

\* init_database, lines 167-191: the exclusions of venues.toml, from the
\* i-th on
RECURSIVE LoadExclusions(_, _, _)
LoadExclusions(d, listed_venues, i) ==
    IF i > Len(listed_venues) THEN d
    ELSE LET venue == listed_venues[i]
             name == Get(venue, "name", "")
         IN LoadExclusions(
                IF name # "" /\ name # "Example Excluded Venue"
                THEN InsertExcluded(d, name, Get(venue, "city", "None"),
                                    Get(venue, "reason", "None"))
                ELSE d,
                listed_venues, i + 1)

\* init_database(): the tables exist already (CREATE TABLE IF NOT EXISTS)
init_database(d, cfg) ==
    LoadExclusions(d, Get(Get(cfg, "excluded", EmptyDict), "venues", <<>>), 1)

\* save_venue(conn, venue)
save_venue(d, venue) ==
    LET venue_id == generate_venue_id(venue["name"], Get(venue, "city", "Unknown"))
    IN IF venue_id \in DOMAIN d.venues
       THEN [d EXCEPT !.venues[venue_id].last_seen = "today"]
       ELSE InsertVenue(d, venue_id, venue["name"], Get(venue, "city", "None"),
                        Get(venue, "source", "None"))

\* add_venue_manual(config, name, city)
add_venue_manual(d, cfg, name, city) ==
    save_venue(init_database(d, cfg),
               ("name" :> name) @@ ("city" :> city) @@ ("source" :> "manual"))

\* exclude_venue(name, city, reason)
exclude_venue(d, cfg, name, city, reason) ==
    SetStatus(InsertExcluded(init_database(d, cfg), name, city, reason),
              generate_venue_id(name, city), "excluded")

\* unexclude_venue(name, city)
unexclude_venue(d, name, city) ==
    LET rowcount == Cardinality(ExcludedRows(d, name, city))
        deleted == [d EXCEPT !.excluded_venues = @ \ ExcludedRows(d, name, city)]
    IN IF rowcount > 0
       THEN SetStatus(deleted, generate_venue_id(name, city), "active")
       ELSE deleted

\* is_venue_excluded(name, city)
is_venue_excluded(d, name, city) == ExcludedRows(d, name, city) # {}

\* process_daily_results, lines 144-158: the venues parsed from the results,
\* from the i-th on
RECURSIVE process_daily_results(_, _, _)
process_daily_results(d, parsed, i) ==
    IF i > Len(parsed) THEN d
    ELSE LET venue == parsed[i]
             venue_id == generate_venue_id(venue.name, venue.city)
         IN process_daily_results(
                IF venue_id \notin DOMAIN d.venues
                THEN InsertVenue(d, venue_id, venue.name, venue.city, "web_search")
                ELSE d,
                parsed, i + 1)

---------------------------------------------------------------------------
(* Specification of the operations on the venue database *)

\* venues.toml: no [excluded] section, or one that lists the example entry
\* and one venue
VenueConfigs ==
    { EmptyDict,
      "excluded" :> ("venues" :>
          << ("name" :> "Example Excluded Venue") @@ ("city" :> "Troy"),
             ("name" :> "Blue Note") @@ ("city" :> "Troy") @@ ("reason" :> "closed") >>) }

\* rows found in the venues table: the statuses are those of the schema
\* (line 74: active, closed, unverified)
StoredRow(name, status) ==
    generate_venue_id(name, "Troy") :>
        [name |-> name, city |-> "Troy", status |-> status,
         source |-> "manual", last_seen |-> "earlier"]

StoredVenues ==
    { f @@ b : f \in {EmptyDict} \cup { StoredRow("The Falcon", st) :
                                          st \in {"active", "closed", "unverified"} },
               b \in {EmptyDict, StoredRow("Blue Note", "active")} }

\* the venue lists parse_search_results extracts from a results file: the
\* names are stripped (match.group(1).strip())
ParsedLists ==
    { <<>>,
      << [name |-> "The Falcon", city |-> "Troy"] >>,
      << [name |-> "Blue Note", city |-> "Troy"], [name |-> "The Falcon", city |-> "Troy"] >> }

ExcludeReasons == {"no_response"}

InitVenues ==
    /\ mode = "venues"
    /\ config \in VenueConfigs
    /\ db \in { [venues |-> v, excluded_venues |-> {}] : v \in StoredVenues }
    /\ dblog = <<>>
    /\ pc = "ready"
    /\ max_queries = 0
    /\ provider_arg = PyNone
    /\ cand = 0
    /\ provider = PyNone
    /\ queries = <<>>
    /\ results = <<>>
    /\ files = <<>>
    /\ calls = <<>>
    /\ diag = <<>>
    /\ env = NoEnv
    /\ listed = <<>>
    /\ disk = EmptyDict
    /\ SchedulerIdle

\* the operation is recorded with the database it found
Logged(op, name, city) ==
    /\ Len(dblog) < MaxVenueOps
    /\ dblog' = Append(dblog, [op |-> op, name |-> name, city |-> city, before |-> db])
    /\ UNCHANGED <<config, max_queries, provider_arg, mode, pc, cand, provider, queries,
                   results, files, calls, diag, env, listed, disk,
                   args, conn, connections, raised>>

\* venue_scout.py --init-db
VenueInitDatabase ==
    /\ mode = "venues"
    /\ db' = init_database(db, config)
    /\ Logged("init_database", "", "")

\* venue_scout.py --exclude NAME CITY
VenueExclude ==
    /\ mode = "venues"
    /\ \E name \in VenueNames, city \in VenueCities, reason \in ExcludeReasons :
          /\ db' = exclude_venue(db, config, name, city, reason)
          /\ Logged("exclude_venue", name, city)

\* venue_scout.py --unexclude NAME CITY
VenueUnexclude ==
    /\ mode = "venues"
    /\ \E name \in VenueNames, city \in VenueCities :
          /\ db' = unexclude_venue(db, name, city)
          /\ Logged("unexclude_venue", name, city)

\* venue_scout.py --add-venue NAME CITY
VenueAdd ==
    /\ mode = "venues"
    /\ \E name \in VenueNames, city \in VenueCities :
          /\ db' = add_venue_manual(db, config, name, city)
          /\ Logged("add_venue_manual", name, city)

\* search_runner.py --process FILE
VenueProcess ==
    /\ mode = "venues"
    /\ \E parsed \in ParsedLists :
          /\ db' = process_daily_results(db, parsed, 1)
          /\ Logged("process_daily_results", "", "")

NextVenues ==
    \/ VenueInitDatabase
    \/ VenueExclude
    \/ VenueUnexclude
    \/ VenueAdd
    \/ VenueProcess

SpecVenues == InitVenues /\ [][NextVenues]_vars

---------------------------------------------------------------------------
(* Properties of the venue database *)

InVenues == mode = "venues"

\* the database after the k-th logged operation
After(k) == IF k < Len(dblog) THEN dblog[k + 1].before ELSE db

\* C28: exclude_venue(name, city) followed by unexclude_venue(name, city)
\* leaves a venue row that was active, closed or unverified with the status
\* it had before the exclusion, and leaves the exclusion list as it was.
C28_ExcludeUnexcludeRestores ==
    InVenues =>
        \A k \in DOMAIN dblog :
            (/\ k < Len(dblog)
             /\ dblog[k].op = "exclude_venue"
             /\ dblog[k + 1].op = "unexclude_venue"
             /\ dblog[k + 1].name = dblog[k].name
             /\ dblog[k + 1].city = dblog[k].city) =>
                LET before == dblog[k].before
                    after == After(k + 1)
                    id == generate_venue_id(dblog[k].name, dblog[k].city)
                IN /\ (id \in DOMAIN before.venues
                         /\ before.venues[id].status \in {"active", "closed", "unverified"})
                       => after.venues[id].status = before.venues[id].status
                   /\ after.excluded_venues = before.excluded_venues

\* C29: after any sequence of the operations a venue row has status
\* 'excluded' exactly when is_venue_excluded is true for its name and city,
\* and no venue with an entry on the exclusion list (names compared as the
\* venue id compares them, without case and surrounding whitespace) has a
\* row with status 'active'.
C29_ExcludedIffListed ==
    InVenues =>
        /\ \A id \in DOMAIN db.venues :
              (db.venues[id].status = "excluded")
                 <=> is_venue_excluded(db, db.venues[id].name, db.venues[id].city)
        /\ \A r \in db.excluded_venues :
              LET id == generate_venue_id(r.name, r.city)
              IN id \in DOMAIN db.venues => db.venues[id].status # "active"

---------------------------------------------------------------------------
(* festival-submit/scheduler.py *)

\* SubmissionDatabase.connect, festival_submit.py lines 94-97, which may
\* fail in sqlite3.connect (no connection) or in _create_tables (the
\* connection is open and assigned): the connections and self.conn after it
Connect(cs, failure) ==
    IF failure = "connect"
    THEN [connections |-> cs, conn |-> conn, ok |-> FALSE]
    ELSE [connections |-> Append(cs, "open"),
          conn        |-> PyInt(Len(cs) + 1),
          ok          |-> failure = "none"]

\* AutomationRunner.setup, lines 19-21: config.load_all() may fail before
\* connect is reached
Setup(cs, failure) ==
    IF failure = "load_all"
    THEN [connections |-> cs, conn |-> conn, ok |-> FALSE]
    ELSE Connect(cs, failure)

SetupFailures == {"none", "load_all", "connect", "create_tables"}

\* SubmissionDatabase.close, festival_submit.py lines 99-100; closing a
\* closed connection changes nothing
Close(cs) ==
    IF conn # PyNone THEN [cs EXCEPT ![conn.v] = "closed"] ELSE cs

\* AutomationRunner.teardown, lines 23-24
Teardown ==
    /\ connections' = Close(connections)
    /\ calls' = Append(calls, [op |-> "teardown", ok |-> TRUE, failure |-> "none"])

\* datetime.now().weekday(): Monday is 0
Weekdays == {0, 1}

SchedulerRest ==
    UNCHANGED <<config, max_queries, provider_arg, mode, cand, provider, queries,
                results, files, diag, env, listed, disk, db, dblog, args>>

\* history: the method of the runner that was called and whether it returned
Called(method, ok, failure) ==
    calls' = Append(calls, [op |-> method, ok |-> ok, failure |-> failure])

\* main, lines 88-89: runner.setup(), outside the try statement
MainSetup ==
    /\ mode = "scheduler"
    /\ pc = "main_setup"
    /\ \E failure \in SetupFailures :
          LET r == Setup(connections, failure)
          IN /\ connections' = r.connections
             /\ conn' = r.conn
             /\ raised' = ~r.ok
             /\ Called("setup", r.ok, failure)
             /\ pc' = IF r.ok THEN "main_try" ELSE "exit"
    /\ SchedulerRest

\* main, lines 91-92: run_daily or run_weekly, which returns or raises
MainRunOne ==
    /\ mode = "scheduler"
    /\ pc = "main_try"
    /\ "daily" \in args \/ "weekly" \in args
    /\ raised' \in BOOLEAN
    /\ Called(IF "daily" \in args THEN "run_daily" ELSE "run_weekly", ~raised', "none")
    /\ pc' = "main_finally"
    /\ UNCHANGED <<conn, connections>>
    /\ SchedulerRest

\* main, line 93: else runner.run_all()
MainRunAll ==
    /\ mode = "scheduler"
    /\ pc = "main_try"
    /\ "daily" \notin args /\ "weekly" \notin args
    /\ pc' = "run_all_setup"
    /\ UNCHANGED <<conn, connections, raised, calls>>
    /\ SchedulerRest

\* run_all, line 72: self.setup(), outside run_all's try statement
RunAllSetup ==
    /\ mode = "scheduler"
    /\ pc = "run_all_setup"
    /\ \E failure \in SetupFailures :
          LET r == Setup(connections, failure)
          IN /\ connections' = r.connections
             /\ conn' = r.conn
             /\ raised' = ~r.ok
             /\ Called("setup", r.ok, failure)
             /\ pc' = IF r.ok THEN "run_all_try" ELSE "main_finally"
    /\ SchedulerRest

\* run_all, line 74: run_daily returns or raises
RunAllDaily ==
    /\ mode = "scheduler"
    /\ pc = "run_all_try"
    /\ \/ raised' = FALSE /\ pc' = "run_all_weekly"
       \/ raised' = TRUE /\ pc' = "run_all_finally"
    /\ Called("run_daily", ~raised', "none")
    /\ UNCHANGED <<conn, connections>>
    /\ SchedulerRest

\* run_all, line 75: run_weekly if datetime.now().weekday() == 0 (it returns
\* or raises), {} on any other day
RunAllWeekly ==
    /\ mode = "scheduler"
    /\ pc = "run_all_weekly"
    /\ IF env.weekday = 0
       THEN raised' \in BOOLEAN /\ Called("run_weekly", ~raised', "none")
       ELSE raised' = FALSE /\ UNCHANGED calls
    /\ pc' = "run_all_finally"
    /\ UNCHANGED <<conn, connections>>
    /\ SchedulerRest

\* run_all, lines 77-78: finally: self.teardown()
RunAllTeardown ==
    /\ mode = "scheduler"
    /\ pc = "run_all_finally"
    /\ Teardown
    /\ pc' = "main_finally"
    /\ UNCHANGED <<conn, raised>>
    /\ SchedulerRest

\* main, lines 95-96: finally: runner.teardown(); the process ends
MainTeardown ==
    /\ mode = "scheduler"
    /\ pc = "main_finally"
    /\ Teardown
    /\ pc' = "exit"
    /\ UNCHANGED <<conn, raised>>
    /\ SchedulerRest

SchedulerFlags == {"daily", "weekly", "all"}

\* the state after AutomationRunner(): self.db.conn is None
InitScheduler ==
    /\ mode = "scheduler"
    /\ args \in SUBSET SchedulerFlags
    /\ conn = PyNone
    /\ connections = <<>>
    /\ raised = FALSE
    /\ pc = "main_setup"
    /\ config = EmptyDict
    /\ max_queries = 0
    /\ provider_arg = PyNone
    /\ cand = 0
    /\ provider = PyNone
    /\ queries = <<>>
    /\ results = <<>>
    /\ files = <<>>
    /\ calls = <<>>
    /\ diag = <<>>
    /\ env \in { [weekday |-> d] : d \in Weekdays }
    /\ listed = <<>>
    /\ disk = EmptyDict
    /\ VenuesIdle

NextScheduler ==
    \/ MainSetup
    \/ MainRunOne
    \/ MainRunAll
    \/ RunAllSetup
    \/ RunAllDaily
    \/ RunAllWeekly
    \/ RunAllTeardown
    \/ MainTeardown

SpecScheduler == InitScheduler /\ [][NextScheduler]_vars

---------------------------------------------------------------------------
(* Properties of the scheduler *)

InScheduler == mode = "scheduler"

\* C30: in every run of main, under every flag, each connection opened by
\* setup is closed by a teardown before the process ends, and no connection
\* is replaced in runner.db.conn while it is still open.
C30_ConnectionsClosed ==
    /\ []((InScheduler /\ pc = "exit") =>
              \A i \in DOMAIN connections : connections[i] = "closed")
    /\ [][(InScheduler /\ conn' # conn /\ conn # PyNone)
             => connections[conn.v] = "closed"]_vars

=============================================================================
